---- MODULE Spec2Model ----
(***************************************************************************)
(* Event-sourced task lifecycle pipeline of the Todo backend: the outbox   *)
(* publisher, the in-process consumer dispatcher, the reminder service,    *)
(* the task service hooks and the three background workers.                *)
(*                                                                         *)
(* Tables are sequences of rows; a row's primary key is its index.  A      *)
(* request handler or a worker cycle is one action: it threads a record    *)
(* `db` of all tables through the calls the handler makes and commits the  *)
(* result.  Time is a natural number in units of one minute.  The Task     *)
(* rows carry the Phase V columns (recurrence_type, due_at) the services   *)
(* read.  Referential constraints are not modelled: reminder rows outlive  *)
(* their task row, which is the case ReminderWorker's task_not_found       *)
(* branch is written for.                                                  *)
(***************************************************************************)
EXTENDS Integers, Sequences, FiniteSets, TLC

\* ---------------------------------------------------------------- bounds
MaxTime == 1
MaxTasks == 2
MaxReminders == 2
MaxEvents == 3
MaxNotifications == 6
MaxAudit == 6
BatchSize == 2
MaxRetryTime == 6
MaxAILogs == 2
MaxIterations == 2
MaxDueAt == 7201
InsightTime == 2880

\* ------------------------------------------------------ program constants
WORKER_MAX_RETRIES == 3
WORKER_RETRY_DELAY_SECONDS == 60
SecondsPerMinute == 60

None == 0
NoTime == -1

\* Confidence thresholds are counted in tenths: 0.8 is 8.
AI_CONFIDENCE_THRESHOLD == 8

RetryDelay == WORKER_RETRY_DELAY_SECONDS \div SecondsPerMinute

VARIABLES
    now,              \* datetime.utcnow(), minutes
    EVENTS_ENABLED,   \* settings.EVENTS_ENABLED
    broker,           \* the Dapr sidecar: "up" or "down"
    faults,           \* the components whose processing step may raise
    ai_settings,      \* settings.AI_AUTOMATION_ENABLED, AI_CONFIDENCE_THRESHOLD
    tasks,            \* table tasks
    reminders,        \* table task_reminders
    notifications,    \* table notification_deliveries
    audit_logs,       \* table audit_logs
    task_events,      \* table task_events (the outbox)
    publish_calls,    \* results returned by EventPublisher.publish_event
    process_calls,    \* consumer process() calls that returned, per event
    ai_result,        \* the latest AIExecutor.execute_recommendation call
    sessions,         \* per concurrent worker instance: its session and position
    item_calls,       \* process_item calls of the concurrent worker instances
    runner,           \* the WorkerRunner: its flag, its counters, its position
    rolled_back,      \* the events persisted by the latest request, if it was
                      \* rolled back
    candidate,        \* the latest generate_reminder_candidate call
    recommendation,   \* the latest suggest_priority_change call
    transactions      \* the create_reminder transactions in progress, per caller

vars == <<now, EVENTS_ENABLED, broker, faults, ai_settings, tasks, reminders,
          notifications, audit_logs, task_events, publish_calls, process_calls,
          ai_result, sessions, item_calls, runner, rolled_back,
                   candidate, recommendation, transactions>>

\* The tables and call results a handler threads through its calls.
DB ==
    [tasks |-> tasks, reminders |-> reminders, notifications |-> notifications,
     audit_logs |-> audit_logs, task_events |-> task_events,
     publish_calls |-> publish_calls, process_calls |-> process_calls,
     ai_result |-> ai_result, sessions |-> sessions, item_calls |-> item_calls,
     runner |-> runner,
     rolled_back |-> {},
     candidate |-> candidate,
     recommendation |-> recommendation,
     transactions |-> transactions,
     durable |->                \* what the database holds outside the session
        [tasks |-> tasks, reminders |-> reminders,
         notifications |-> notifications, audit_logs |-> audit_logs,
         task_events |-> task_events, process_calls |-> process_calls],
     pending_events |-> <<>>,   \* session.info["pending_events"] of a new session
     processed |-> 0,           \* the counters of a WorkerBase.run cycle
     failed |-> 0,
     dispatch_log |-> <<>>]     \* what the latest dispatch call did

Commit(d) ==
    /\ tasks' = d.tasks
    /\ reminders' = d.reminders
    /\ notifications' = d.notifications
    /\ audit_logs' = d.audit_logs
    /\ task_events' = d.task_events
    /\ publish_calls' = d.publish_calls
    /\ process_calls' = d.process_calls
    /\ ai_result' = d.ai_result
    /\ sessions' = d.sessions
    /\ item_calls' = d.item_calls
    /\ runner' = d.runner
    /\ rolled_back' = d.rolled_back
    /\ candidate' = d.candidate
    /\ recommendation' = d.recommendation
    /\ transactions' = d.transactions

\* ------------------------------------------------------------ enumerations
ReminderStatus == {"pending", "sent", "cancelled", "failed"}
DeliveryStatus == {"pending", "processing", "sent", "failed"}
ProcessingStatus == {"pending", "processing", "completed", "failed"}
RecurrenceType == {"none", "daily"}
Priority == {"low", "medium", "high"}
RecommendationType ==
    {"priority_change", "add_reminder", "task_overdue", "task_neglected",
     "recurring_optimization"}
RecommendationConfidence == {"low", "medium", "high"}

TASK_CREATED == "task.created.v1"
TASK_UPDATED == "task.updated.v1"
TASK_COMPLETED == "task.completed.v1"
TASK_DELETED == "task.deleted.v1"
TASK_RECURRED == "task.recurred.v1"
REMINDER_SCHEDULED == "reminder.scheduled.v1"
REMINDER_CANCELLED == "reminder.cancelled.v1"
REMINDER_SENT == "reminder.sent.v1"

EventType ==
    {TASK_CREATED, TASK_UPDATED, TASK_COMPLETED, TASK_DELETED, TASK_RECURRED,
     REMINDER_SCHEDULED, REMINDER_CANCELLED, REMINDER_SENT}

\* Broker responses to the HTTP POST of publish_event.
BrokerFailures == {"connect_error", "http_status_error", "timeout"}

BrokerResponses == IF broker = "up" THEN {"ok"} ELSE BrokerFailures

\* ------------------------------------------------------------ row queries
TaskExists(d, t) == t \in DOMAIN d.tasks /\ d.tasks[t].exists

PendingReminders(d, t) ==
    {i \in DOMAIN d.reminders :
        d.reminders[i].task_id = t /\ d.reminders[i].status = "pending"}

\* ------------------------------------------------------------ transactions
\* session.commit(): the rows the session has flushed become durable.
session_commit(d) ==
    [d EXCEPT !.durable =
        [tasks |-> d.tasks, reminders |-> d.reminders,
         notifications |-> d.notifications, audit_logs |-> d.audit_logs,
         task_events |-> d.task_events, process_calls |-> d.process_calls]]

\* The session of get_session is closed with work it never committed: the
\* rows are those of the last commit, and the calls recorded for rows that
\* no longer exist go with them.
session_close(d) ==
    [d EXCEPT !.tasks = d.durable.tasks,
              !.reminders = d.durable.reminders,
              !.notifications = d.durable.notifications,
              !.audit_logs = d.durable.audit_logs,
              !.task_events = d.durable.task_events,
              !.process_calls = d.durable.process_calls,
              !.pending_events = <<>>]

\* The outbox rows a session added to those of d0.
NewEvents(d0, d) ==
    {[id |-> d.task_events[e].id, event_type |-> d.task_events[e].event_type,
      task_id |-> d.task_events[e].task_id] :
        e \in (Len(d0.task_events) + 1)..Len(d.task_events)}

\* ------------------------------------------------------------ the outbox
\* A persist_event that commits the session itself.
persist_event_committing(d, event_type, task_id, data) ==
    session_commit(
        [d EXCEPT !.task_events = Append(@,
            [id |-> Len(@) + 1,
             event_type |-> event_type,
             task_id |-> task_id,
             data |-> data,
             published |-> FALSE,
             published_at |-> NoTime,
             processing_status |-> "pending",
             processed_at |-> NoTime,
             retry_count |-> 0])])

\* EventPublisher.create_event + persist_event: one outbox row, unpublished,
\* pending; the transaction is the caller's.
persist_event(d, event_type, task_id, data) ==
    [d EXCEPT !.task_events = Append(@,
        [id |-> Len(@) + 1,
         event_type |-> event_type,
         task_id |-> task_id,
         data |-> data,
         published |-> FALSE,
         published_at |-> NoTime,
         processing_status |-> "pending",
         processed_at |-> NoTime,
         retry_count |-> 0])]

\* events.emit_event: nothing when events are disabled, no dispatch.
emit_event(d, event_type, aggregate_id, data) ==
    IF ~EVENTS_ENABLED THEN d
    ELSE persist_event(d, event_type, aggregate_id, data)

EventData(recurrence_type, reminder_id) ==
    [recurrence_type |-> recurrence_type, reminder_id |-> reminder_id]

\* The outbox row was durable when the broker was called.
Committed(d, e) == e \in DOMAIN d.durable.task_events

\* EventPublisher.publish_event without its last except clause: a timeout
\* leaves the call as an exception.
publish_event_unguarded(d, e, resp) ==
    IF resp = "ok"
    THEN session_commit(
            [d EXCEPT !.task_events[e].published = TRUE,
                      !.task_events[e].published_at = now,
                      !.publish_calls = @ \cup
                        {[event_id |-> e, ret |-> "true",
                          committed |-> Committed(d, e)]}])
    ELSE [d EXCEPT !.publish_calls = @ \cup
            {[event_id |-> e,
              ret |-> IF resp = "timeout" THEN "raised" ELSE "false",
              committed |-> Committed(d, e)]}]

\* EventPublisher.publish_event: POST, raise_for_status, then mark the row
\* published and commit; every exception is caught and turned into False.
publish_event(d, e, resp) ==
    IF resp = "ok"
    THEN session_commit(
            [d EXCEPT !.task_events[e].published = TRUE,
                      !.task_events[e].published_at = now,
                      !.publish_calls = @ \cup
                        {[event_id |-> e, ret |-> "true",
                          committed |-> Committed(d, e)]}])
    ELSE [d EXCEPT !.publish_calls = @ \cup
            {[event_id |-> e, ret |-> "false", committed |-> Committed(d, e)]}]

\* ------------------------------------------------------------ consumers
Consumers == <<"AuditConsumer", "NotificationConsumer", "RecurrenceConsumer">>

ConsumerNames == {Consumers[k] : k \in DOMAIN Consumers}

\* AuditConsumer.EVENT_TO_ACTION / EVENT_TO_ENTITY
EVENT_TO_ACTION(event_type) ==
    CASE event_type = TASK_CREATED -> "task.created"
      [] event_type = TASK_UPDATED -> "task.updated"
      [] event_type = TASK_COMPLETED -> "task.completed"
      [] event_type = TASK_DELETED -> "task.deleted"
      [] event_type = TASK_RECURRED -> "task.recurred"
      [] event_type = REMINDER_SCHEDULED -> "reminder.scheduled"
      [] event_type = REMINDER_CANCELLED -> "reminder.cancelled"
      [] event_type = REMINDER_SENT -> "reminder.sent"

EVENT_TO_ENTITY(event_type) ==
    IF event_type \in {REMINDER_SCHEDULED, REMINDER_CANCELLED, REMINDER_SENT}
    THEN "reminder" ELSE "task"

NOTIFIABLE_EVENTS == {TASK_CREATED, TASK_COMPLETED}

\* Consumers that take every event type.
handles_all(consumer, event_type) == event_type \in EventType

handles(consumer, event_type) ==
    CASE consumer = "AuditConsumer" -> event_type \in EventType
      [] consumer = "NotificationConsumer" -> event_type \in NOTIFIABLE_EVENTS
      [] consumer = "RecurrenceConsumer" -> event_type = TASK_COMPLETED

\* The TaskEventData both dispatch paths build from an outbox row.
TaskEventData(d, e) ==
    [event_id |-> d.task_events[e].id,
     event_type |-> d.task_events[e].event_type,
     aggregate_id |-> d.task_events[e].task_id,
     data |-> d.task_events[e].data]

AuditEntityId(event) ==
    IF EVENT_TO_ENTITY(event.event_type) = "reminder" /\ event.data.reminder_id # None
    THEN event.data.reminder_id
    ELSE event.aggregate_id

\* AuditConsumer.process without its lookup of an existing row.
AuditConsumer_process_unchecked(d, event) ==
    [d EXCEPT !.audit_logs = Append(@,
        [action |-> EVENT_TO_ACTION(event.event_type),
         entity_type |-> EVENT_TO_ENTITY(event.event_type),
         entity_id |-> AuditEntityId(event),
         event_id |-> event.event_id])]

\* AuditConsumer.process: skip when a row with this entity, action and event
\* id exists (the query autoflushes, so rows added earlier in the same
\* transaction are seen), else add one.
AuditConsumer_process(d, event) ==
    IF \E k \in DOMAIN d.audit_logs :
          /\ d.audit_logs[k].entity_id = AuditEntityId(event)
          /\ d.audit_logs[k].action = EVENT_TO_ACTION(event.event_type)
          /\ d.audit_logs[k].event_id = event.event_id
    THEN d
    ELSE [d EXCEPT !.audit_logs = Append(@,
            [action |-> EVENT_TO_ACTION(event.event_type),
             entity_type |-> EVENT_TO_ENTITY(event.event_type),
             entity_id |-> AuditEntityId(event),
             event_id |-> event.event_id])]

NewNotification(reminder_id) ==
    [reminder_id |-> reminder_id, status |-> "pending", retry_count |-> 0,
     next_retry_at |-> NoTime]

\* NotificationConsumer.process: one pending NotificationDelivery per call.
NotificationConsumer_process(d, event) ==
    IF event.event_type \notin NOTIFIABLE_EVENTS THEN d
    ELSE [d EXCEPT !.notifications = Append(@, NewNotification(None))]

\* RecurrenceConsumer.process: an audit row for a completed recurring task.
RecurrenceConsumer_process(d, event) ==
    IF event.data.recurrence_type = "none" THEN d
    ELSE [d EXCEPT !.audit_logs = Append(@,
            [action |-> "task.recurred",
             entity_type |-> "task",
             entity_id |-> event.aggregate_id,
             event_id |-> event.event_id])]

process(consumer, d, event) ==
    CASE consumer = "AuditConsumer" -> AuditConsumer_process(d, event)
      [] consumer = "NotificationConsumer" -> NotificationConsumer_process(d, event)
      [] consumer = "RecurrenceConsumer" -> RecurrenceConsumer_process(d, event)

\* ------------------------------------------------------------ dispatcher
CallsOf(calls, consumer, event_id) ==
    {c \in calls : c.consumer = consumer /\ c.event_id = event_id}

\* consumer.process(session, event, task_event) returned: the n-th time for
\* this consumer and event.
Returned(d, consumer, event) ==
    [d EXCEPT !.process_calls = @ \cup
        {[consumer |-> consumer, event_id |-> event.event_id,
          n |-> Cardinality(CallsOf(@, consumer, event.event_id)) + 1]}]

\* `raising` is the set of consumers whose process() raises in this call.
\* The log keeps which consumers were invoked and whether an exception left
\* dispatch.
RECURSIVE dispatch_unguarded_from(_, _, _, _)
dispatch_unguarded_from(d, event, raising, k) ==
    IF k > Len(Consumers) THEN d
    ELSE IF ~handles(Consumers[k], event.event_type)
    THEN dispatch_unguarded_from(d, event, raising, k + 1)
    ELSE LET invoked == [d EXCEPT !.dispatch_log.invoked = @ \cup {Consumers[k]}]
         IN IF Consumers[k] \in raising
            THEN [invoked EXCEPT !.dispatch_log.escaped = TRUE]
            ELSE dispatch_unguarded_from(
                    Returned(process(Consumers[k], invoked, event),
                             Consumers[k], event),
                    event, raising, k + 1)

RECURSIVE dispatch_from(_, _, _, _)
dispatch_from(d, event, raising, k) ==
    IF k > Len(Consumers) THEN d
    ELSE IF ~handles(Consumers[k], event.event_type)
    THEN dispatch_from(d, event, raising, k + 1)
    ELSE LET invoked == [d EXCEPT !.dispatch_log.invoked = @ \cup {Consumers[k]}]
         IN IF Consumers[k] \in raising
            THEN dispatch_from(invoked, event, raising, k + 1)
            ELSE dispatch_from(
                    Returned(process(Consumers[k], invoked, event),
                             Consumers[k], event),
                    event, raising, k + 1)

\* EventDispatcher.dispatch
dispatch(d, event, raising) ==
    dispatch_from(
        [d EXCEPT !.dispatch_log =
            [event_id |-> event.event_id, event_type |-> event.event_type,
             invoked |-> {}, raising |-> raising, escaped |-> FALSE]],
        event, raising, 1)

\* ------------------------------------------------------------ reminder service
emit_reminder_scheduled(d, reminder_id, task_id) ==
    emit_event(d, REMINDER_SCHEDULED, task_id, EventData("none", reminder_id))

emit_reminder_cancelled(d, reminder_id, task_id) ==
    emit_event(d, REMINDER_CANCELLED, task_id, EventData("none", reminder_id))

emit_reminder_sent(d, reminder_id, task_id) ==
    emit_event(d, REMINDER_SENT, task_id, EventData("none", reminder_id))

cancel_task_reminders_noop(d, task_id) == d

RECURSIVE cancel_from(_, _, _)
cancel_from(d, task_id, i) ==
    IF i > Len(d.reminders) THEN d
    ELSE IF d.reminders[i].task_id = task_id /\ d.reminders[i].status = "pending"
    THEN cancel_from(
            emit_reminder_cancelled(
                [d EXCEPT !.reminders[i].status = "cancelled"], i, task_id),
            task_id, i + 1)
    ELSE cancel_from(d, task_id, i + 1)

\* ReminderService.cancel_task_reminders: every pending reminder of the task
\* becomes cancelled, one reminder.cancelled event each.
cancel_task_reminders(d, task_id) == cancel_from(d, task_id, 1)

\* ReminderService.DEFAULT_LEAD_HOURS, DEFAULT_LEAD_DAYS and the literals of
\* generate_reminder_candidate, times being minutes.
DEFAULT_LEAD_HOURS == 1
DEFAULT_LEAD_DAYS == 1
HIGH_PRIORITY_LEAD_HOURS == 2
HOUR == 60
URGENT_HOURS == 24
MIN_LEAD_MINUTES == 15
MinutesPerDay == URGENT_HOURS * HOUR

\* lead_hours=None
NoLead == NoTime

NoCall == [task_id |-> None, lead_hours |-> NoLead, at |-> NoTime,
           remind_at |-> NoTime]

\* Without the branch that lifts a past time to now + 15 minutes.
generate_reminder_candidate_unclamped(task, lead_hours) ==
    IF task.is_completed \/ task.due_at = NoTime THEN NoTime
    ELSE IF task.due_at <= now THEN NoTime
    ELSE LET minutes_until_due == task.due_at - now
             lead == IF lead_hours # NoLead THEN lead_hours * HOUR
                     ELSE IF minutes_until_due <= URGENT_HOURS * HOUR
                     THEN DEFAULT_LEAD_HOURS * HOUR
                     ELSE DEFAULT_LEAD_DAYS * MinutesPerDay
         IN task.due_at - lead

\* With the one-hour lead however far the due date is.
generate_reminder_candidate_hour_lead(task, lead_hours) ==
    IF task.is_completed \/ task.due_at = NoTime THEN NoTime
    ELSE IF task.due_at <= now THEN NoTime
    ELSE LET lead == IF lead_hours # NoLead THEN lead_hours * HOUR
                     ELSE DEFAULT_LEAD_HOURS * HOUR
             remind_at == task.due_at - lead
         IN IF remind_at <= now THEN now + MIN_LEAD_MINUTES ELSE remind_at

\* ReminderService.generate_reminder_candidate: the candidate's remind_at,
\* NoTime when None is returned. hours_until_due <= 24 is compared on the
\* minutes.
generate_reminder_candidate(task, lead_hours) ==
    IF task.is_completed \/ task.due_at = NoTime THEN NoTime
    ELSE IF task.due_at <= now THEN NoTime
    ELSE LET minutes_until_due == task.due_at - now
             lead == IF lead_hours # NoLead THEN lead_hours * HOUR
                     ELSE IF minutes_until_due <= URGENT_HOURS * HOUR
                     THEN DEFAULT_LEAD_HOURS * HOUR
                     ELSE DEFAULT_LEAD_DAYS * MinutesPerDay
             remind_at == task.due_at - lead
         IN IF remind_at <= now THEN now + MIN_LEAD_MINUTES ELSE remind_at

\* ReminderService.create_reminder: cancel, insert pending, emit scheduled.
create_reminder(d, task_id, remind_at) ==
    LET d1 == cancel_task_reminders(d, task_id)
        d2 == [d1 EXCEPT !.reminders = Append(@,
                 [task_id |-> task_id, status |-> "pending",
                  remind_at |-> remind_at])]
    IN emit_reminder_scheduled(d2, Len(d2.reminders), task_id)

\* The callers of create_reminder: the endpoint POST /tasks/{id}/reminder
\* and AIExecutor._handle_add_reminder, each in a session of its own.
Callers == {"api", "ai_executor"}

NoTransaction == [pc |-> "idle", task_id |-> None, remind_at |-> NoTime,
                  pending |-> {}]

RECURSIVE cancel_selected(_, _, _, _)
cancel_selected(d, task_id, pending, i) ==
    IF i > Len(d.reminders) THEN d
    ELSE IF i \in pending
    THEN cancel_selected(
            emit_reminder_cancelled(
                [d EXCEPT !.reminders[i].status = "cancelled"], i, task_id),
            task_id, pending, i + 1)
    ELSE cancel_selected(d, task_id, pending, i + 1)

\* create_reminder after the SELECT of cancel_task_reminders returned the
\* rows `pending`: those rows are cancelled, the new row is inserted and
\* reminder.scheduled is emitted.
create_reminder_selected(d, task_id, remind_at, pending) ==
    LET d1 == cancel_selected(d, task_id, pending, 1)
        d2 == [d1 EXCEPT !.reminders = Append(@,
                 [task_id |-> task_id, status |-> "pending",
                  remind_at |-> remind_at])]
    IN emit_reminder_scheduled(d2, Len(d2.reminders), task_id)

\* ReminderService.mark_reminder_sent: only a pending reminder is changed.
mark_reminder_sent(d, reminder_id) ==
    IF reminder_id \notin DOMAIN d.reminders THEN d
    ELSE IF d.reminders[reminder_id].status # "pending" THEN d
    ELSE emit_reminder_sent(
            [d EXCEPT !.reminders[reminder_id].status = "sent"],
            reminder_id, d.reminders[reminder_id].task_id)

\* ReminderService.mark_reminder_failed: no check of the current status.
mark_reminder_failed(d, reminder_id) ==
    IF reminder_id \notin DOMAIN d.reminders THEN d
    ELSE [d EXCEPT !.reminders[reminder_id].status = "failed"]

handle_task_completion(d, task_id) == cancel_task_reminders(d, task_id)

handle_task_deletion(d, task_id) == cancel_task_reminders(d, task_id)

\* ------------------------------------------------------------ AI executor
\* settings.AI_AUTOMATION_ENABLED and AI_CONFIDENCE_THRESHOLD by default
\* Thresholds between 0.0 and 1.0 a deployment may configure
Thresholds == {0, AI_CONFIDENCE_THRESHOLD}

DefaultAISettings == [enabled |-> FALSE, threshold |-> AI_CONFIDENCE_THRESHOLD]

NoResult ==
    [recommendation_type |-> "", task_id |-> None, confidence |-> "",
     dry_run |-> FALSE, applied |-> FALSE, reason |-> ""]

\* ExecutionResult, with the recommendation and the dry_run flag of the call
ExecutionResult(rec, dry_run, applied, reason) ==
    [recommendation_type |-> rec.recommendation_type, task_id |-> rec.task_id,
     confidence |-> rec.confidence, dry_run |-> dry_run,
     applied |-> applied, reason |-> reason]

\* AIExecutor.is_enabled, and the gate left open
is_enabled_always == TRUE

is_enabled == ai_settings.enabled

\* AIExecutor.CONFIDENCE_VALUES, in tenths
CONFIDENCE_VALUES(confidence) ==
    CASE confidence = "low" -> 3
      [] confidence = "medium" -> 6
      [] confidence = "high" -> 9

\* AIExecutor.meets_threshold, and the gate left open
meets_threshold_any(rec) == TRUE

meets_threshold(rec) ==
    CONFIDENCE_VALUES(rec.confidence) >= ai_settings.threshold

\* AIExecutor._get_handler, and a table with a handler for every type
_get_handler_for_all(rec_type) ==
    IF rec_type = "add_reminder" THEN "_apply_add_reminder"
    ELSE "_apply_priority_change"

_get_handler(rec_type) ==
    CASE rec_type = "priority_change" -> "_apply_priority_change"
      [] rec_type = "add_reminder" -> "_apply_add_reminder"
      [] OTHER -> "None"

\* A handler's outcome: the tables and whether it raised.
Handled(d, raised) == [db |-> d, raised |-> raised]

\* AIExecutor._apply_priority_change
_apply_priority_change(d, rec) ==
    IF ~TaskExists(d, rec.task_id) THEN Handled(d, TRUE)
    ELSE Handled(
            [d EXCEPT !.tasks[rec.task_id].priority =
                IF rec.suggested_value = "" THEN @ ELSE rec.suggested_value],
            FALSE)

\* AIExecutor._apply_add_reminder
_apply_add_reminder(d, rec) ==
    IF ~TaskExists(d, rec.task_id) THEN Handled(d, TRUE)
    ELSE IF rec.remind_at = NoTime THEN Handled(d, TRUE)
    ELSE Handled(create_reminder(d, rec.task_id, rec.remind_at), FALSE)

handler_call(handler, d, rec) ==
    IF handler = "_apply_add_reminder" THEN _apply_add_reminder(d, rec)
    ELSE _apply_priority_change(d, rec)

\* AIExecutor._log_execution: one AuditLog row, details.ai_automated = True
_log_execution(d, result) ==
    [d EXCEPT !.audit_logs = Append(@,
        [action |-> IF result.applied THEN "ai.recommendation.applied"
                    ELSE IF result.reason = "dry_run"
                    THEN "ai.recommendation.dry_run"
                    ELSE "ai.recommendation.skipped",
         entity_type |-> "task",
         entity_id |-> result.task_id,
         event_id |-> None,
         ai_automated |-> TRUE])]

\* The try block of execute_recommendation with dry_run ignored.
execute_handler_always(d, rec, handler, dry_run) ==
    LET h == handler_call(handler, d, rec)
        result == ExecutionResult(rec, dry_run, TRUE, "applied")
    IN IF h.raised
       THEN [h.db EXCEPT !.ai_result = ExecutionResult(rec, dry_run, FALSE, "failed")]
       ELSE [_log_execution(h.db, result) EXCEPT !.ai_result = result]

\* The try block of execute_recommendation: the dry run or the handler, then
\* the audit row; an exception of the handler is turned into a result and
\* nothing is logged.
execute_handler(d, rec, handler, dry_run) ==
    IF dry_run
    THEN LET result == ExecutionResult(rec, dry_run, FALSE, "dry_run")
         IN [_log_execution(d, result) EXCEPT !.ai_result = result]
    ELSE LET h == handler_call(handler, d, rec)
             result == ExecutionResult(rec, dry_run, TRUE, "applied")
         IN IF h.raised
            THEN [h.db EXCEPT !.ai_result =
                    ExecutionResult(rec, dry_run, FALSE, "failed")]
            ELSE [_log_execution(h.db, result) EXCEPT !.ai_result = result]

\* AIExecutor.execute_recommendation
execute_recommendation(d, rec, dry_run) ==
    IF ~is_enabled
    THEN [d EXCEPT !.ai_result = ExecutionResult(rec, dry_run, FALSE, "disabled")]
    ELSE IF ~meets_threshold(rec)
    THEN [d EXCEPT !.ai_result =
            ExecutionResult(rec, dry_run, FALSE, "below_threshold")]
    ELSE IF _get_handler(rec.recommendation_type) = "None"
    THEN [d EXCEPT !.ai_result = ExecutionResult(rec, dry_run, FALSE, "no_handler")]
    ELSE execute_handler(d, rec, _get_handler(rec.recommendation_type), dry_run)

\* ------------------------------------------------------------ AI insights
\* AIInsightsService.OVERDUE_PRIORITY_BOOST_DAYS, REMINDER_SUGGESTION_HOURS
OVERDUE_PRIORITY_BOOST_DAYS == 1
REMINDER_SUGGESTION_HOURS == 24

\* return None
NoSuggestion == [confidence |-> "", suggested_value |-> ""]

Suggestion(confidence, suggested_value) ==
    [confidence |-> confidence, suggested_value |-> suggested_value]

NoSuggestionCall == [task_id |-> None, at |-> NoTime, result |-> NoSuggestion]

\* A medium-priority task is boosted as soon as it is overdue.
suggest_priority_change_any_overdue(task) ==
    IF task.is_completed \/ task.due_at = NoTime THEN NoSuggestion
    ELSE LET minutes_until_due == task.due_at - now
         IN IF minutes_until_due < 0 /\ task.priority = "low"
            THEN Suggestion("high", "medium")
            ELSE IF minutes_until_due < 0 /\ task.priority = "medium"
            THEN Suggestion("medium", "high")
            ELSE IF /\ 0 < minutes_until_due
                    /\ minutes_until_due <= REMINDER_SUGGESTION_HOURS * HOUR
                    /\ task.priority = "low"
            THEN Suggestion("medium", "medium")
            ELSE NoSuggestion

\* AIInsightsService.suggest_priority_change: hours_until_due and
\* days_overdue are compared on the minutes.
suggest_priority_change(task) ==
    IF task.is_completed \/ task.due_at = NoTime THEN NoSuggestion
    ELSE LET minutes_until_due == task.due_at - now
             minutes_overdue == -minutes_until_due
         IN IF minutes_until_due < 0 /\ task.priority = "low"
            THEN Suggestion("high", "medium")
            ELSE IF /\ minutes_until_due < 0
                    /\ task.priority = "medium"
                    /\ minutes_overdue >=
                         OVERDUE_PRIORITY_BOOST_DAYS * MinutesPerDay
            THEN Suggestion("medium", "high")
            ELSE IF /\ 0 < minutes_until_due
                    /\ minutes_until_due <= REMINDER_SUGGESTION_HOURS * HOUR
                    /\ task.priority = "low"
            THEN Suggestion("medium", "medium")
            ELSE NoSuggestion

\* ------------------------------------------------------------ task service
DAY == 1440

\* tasks._build_event_data, the keys the consumers read
_build_event_data(d, task_id) ==
    EventData(d.tasks[task_id].recurrence_type, None)

\* An emission path that does not look at EVENTS_ENABLED.
_emit_task_event_always(d, event_type, task_id, raising) ==
    LET d1 == persist_event(d, event_type, task_id,
                            _build_event_data(d, task_id))
        e == Len(d1.task_events)
        d2 == dispatch(d1, TaskEventData(d1, e), raising)
    IN [d2 EXCEPT !.pending_events = Append(@, e)]

\* tasks._emit_task_event: persist, dispatch inline, queue for publishing.
_emit_task_event(d, event_type, task_id, raising) ==
    IF ~EVENTS_ENABLED THEN d
    ELSE LET d1 == persist_event(d, event_type, task_id,
                                 _build_event_data(d, task_id))
             e == Len(d1.task_events)
             d2 == dispatch(d1, TaskEventData(d1, e), raising)
         IN [d2 EXCEPT !.pending_events = Append(@, e)]

RECURSIVE publish_from(_, _, _)
publish_from(d, resp, k) ==
    IF k > Len(d.pending_events) THEN [d EXCEPT !.pending_events = <<>>]
    ELSE publish_from(publish_event(d, d.pending_events[k], resp), resp, k + 1)

\* tasks._publish_pending_events, called after the commit
_publish_pending_events(d, resp) ==
    IF ~EVENTS_ENABLED THEN d ELSE publish_from(d, resp, 1)

\* tasks.create_task
create_task_rows(d, recurrence_type, due_at, raising) ==
    LET d1 == [d EXCEPT !.tasks = Append(@,
                 [exists |-> TRUE, is_completed |-> FALSE,
                  recurrence_type |-> recurrence_type, due_at |-> due_at,
                  priority |-> "medium"])]
    IN _emit_task_event(d1, TASK_CREATED, Len(d1.tasks), raising)

\* A create_task that publishes before it commits.
create_task_publish_first(d, recurrence_type, due_at, raising, resp) ==
    session_commit(_publish_pending_events(
        create_task_rows(d, recurrence_type, due_at, raising), resp))

create_task(d, recurrence_type, due_at, raising, resp) ==
    _publish_pending_events(
        session_commit(create_task_rows(d, recurrence_type, due_at, raising)),
        resp)

\* tasks.update_task, is_completed being "unset", "true" or "false" in the
\* TaskUpdate: the fields are set, task.updated is emitted; reminders are
\* not touched.
update_task(d, task_id, is_completed, raising, resp) ==
    LET d1 == IF is_completed = "unset" THEN d
              ELSE [d EXCEPT !.tasks[task_id].is_completed = (is_completed = "true")]
        d2 == _emit_task_event(d1, TASK_UPDATED, task_id, raising)
    IN _publish_pending_events(session_commit(d2), resp)

\* tasks._calculate_next_due_date
_calculate_next_due_date(task) ==
    IF task.due_at = NoTime THEN NoTime
    ELSE LET base_date == IF task.due_at < now THEN now ELSE task.due_at
         IN IF task.recurrence_type = "daily" THEN base_date + DAY ELSE NoTime

\* tasks.toggle_task_completion
toggle_task_completion(d, task_id, raising, resp) ==
    LET d1 == [d EXCEPT !.tasks[task_id].is_completed = ~@]
        completed == d1.tasks[task_id].is_completed
        d2 == IF completed THEN handle_task_completion(d1, task_id) ELSE d1
        next_due == _calculate_next_due_date(d2.tasks[task_id])
        has_next == /\ completed
                    /\ d2.tasks[task_id].recurrence_type # "none"
                    /\ next_due # NoTime
        d3 == IF has_next
              THEN [d2 EXCEPT !.tasks = Append(@,
                      [exists |-> TRUE, is_completed |-> FALSE,
                       recurrence_type |-> d2.tasks[task_id].recurrence_type,
                       due_at |-> next_due,
                       priority |-> d2.tasks[task_id].priority])]
              ELSE d2
        d4 == IF completed
              THEN LET c == _emit_task_event(d3, TASK_COMPLETED, task_id, raising)
                   IN IF has_next
                      THEN _emit_task_event(c, TASK_RECURRED, Len(d3.tasks), raising)
                      ELSE c
              ELSE _emit_task_event(d3, TASK_UPDATED, task_id, raising)
    IN _publish_pending_events(session_commit(d4), resp)

\* tasks.delete_task
delete_task(d, task_id, raising, resp) ==
    LET d1 == handle_task_deletion(d, task_id)
        d2 == _emit_task_event(d1, TASK_DELETED, task_id, raising)
        d3 == [d2 EXCEPT !.tasks[task_id].exists = FALSE]
    IN _publish_pending_events(session_commit(d3), resp)

\* ------------------------------------------------------------ reminder worker
WorkerAudit(action, entity_type, entity_id) ==
    [action |-> action, entity_type |-> entity_type, entity_id |-> entity_id,
     event_id |-> None]

\* The first `limit` ids of `ids` by ascending key, ties by primary key.
RECURSIVE OrderBy(_, _, _)
OrderBy(ids, key, limit) ==
    IF ids = {} \/ limit = 0 THEN <<>>
    ELSE LET first == CHOOSE i \in ids :
                        \A j \in ids : key[i] < key[j] \/ (key[i] = key[j] /\ i <= j)
         IN <<first>> \o OrderBy(ids \ {first}, key, limit - 1)

\* The items of a fetched batch
Fetched(items) == {items[k] : k \in DOMAIN items}

\* WorkerBase.run: processed += 1, failed += 1
Processed(d) == [d EXCEPT !.processed = @ + 1]

Failed(d) == [d EXCEPT !.failed = @ + 1]

\* A status that reports failed as soon as one item failed.
WorkerStatus_failed_first(processed, failed) ==
    IF failed > 0 THEN "failed"
    ELSE IF processed > 0 THEN "success"
    ELSE "no_work"

\* WorkerBase.run: the overall status of a cycle from its two counters
WorkerStatus(processed, failed) ==
    IF failed = 0 /\ processed > 0 THEN "success"
    ELSE IF processed > 0 /\ failed > 0 THEN "partial"
    ELSE IF failed > 0 THEN "failed"
    ELSE "no_work"

\* WorkerResult of a cycle that ended with the tables and counters d
WorkerResult(d) ==
    [status |-> WorkerStatus(d.processed, d.failed),
     processed_count |-> d.processed,
     failed_count |-> d.failed]

\* A rollback that also discarded what the batch had committed.
session_rollback_batch(committed, uncommitted) == DB

\* session.rollback() in WorkerBase.run: the changes made since the last
\* commit are dropped; the last commit is the one after the previous item.
session_rollback(committed, uncommitted) == committed

\* ReminderWorker.fetch_pending
ReminderWorker_fetch_pending(d) ==
    OrderBy({i \in DOMAIN d.reminders :
                d.reminders[i].status = "pending" /\ d.reminders[i].remind_at <= now},
            [i \in DOMAIN d.reminders |-> d.reminders[i].remind_at],
            BatchSize)

\* ReminderWorker.process_item and the helpers it calls
ReminderWorker_process_item(d, i) ==
    LET task_id == d.reminders[i].task_id
    IN IF ~TaskExists(d, task_id)
       THEN [d EXCEPT !.reminders[i].status = "failed",
                      !.audit_logs = Append(@, WorkerAudit("reminder.expired", "reminder", i))]
       ELSE IF d.tasks[task_id].is_completed
       THEN [d EXCEPT !.reminders[i].status = "cancelled",
                      !.audit_logs = Append(@, WorkerAudit("reminder.cancelled", "reminder", i))]
       ELSE [d EXCEPT !.notifications = Append(@, NewNotification(i)),
                      !.audit_logs = Append(@, WorkerAudit("reminder.triggered", "reminder", i))]

\* ReminderWorker.mark_completed
ReminderWorker_mark_completed(d, i) ==
    [d EXCEPT !.reminders[i].status = "sent"]

\* A mark_failed that records the failure and leaves the reminder for the
\* next cycle.
ReminderWorker_mark_failed_retry(d, i) ==
    [d EXCEPT !.audit_logs = Append(@, WorkerAudit("reminder.failed", "reminder", i))]

\* ReminderWorker.mark_failed
ReminderWorker_mark_failed(d, i) ==
    [d EXCEPT !.reminders[i].status = "failed",
              !.audit_logs = Append(@, WorkerAudit("reminder.failed", "reminder", i))]

\* WorkerBase.run for the ReminderWorker: per item mark_processing,
\* process_item, mark_completed, commit; an item of `failing` raises at the
\* end of process_item, is rolled back and marked failed.
RECURSIVE ReminderWorker_items(_, _, _, _)
ReminderWorker_items(d, items, failing, k) ==
    IF k > Len(items) THEN d
    ELSE LET i == items[k]
         IN IF d.reminders[i].status # "pending"
            THEN ReminderWorker_items(d, items, failing, k + 1)
            ELSE IF i \in failing
            THEN ReminderWorker_items(
                    Failed(ReminderWorker_mark_failed(
                        session_rollback(d, ReminderWorker_process_item(d, i)), i)),
                    items, failing, k + 1)
            ELSE ReminderWorker_items(
                    Processed(ReminderWorker_mark_completed(
                        ReminderWorker_process_item(d, i), i)),
                    items, failing, k + 1)

ReminderWorker_run(d, failing) ==
    ReminderWorker_items(d, ReminderWorker_fetch_pending(d), failing, 1)

\* ------------------------------------------------------------ notification worker
\* NotificationWorker.fetch_pending's WHERE clause at time t
NotificationWorker_eligible(d, n, t) ==
    \/ d.notifications[n].status = "pending"
    \/ /\ d.notifications[n].status = "failed"
       /\ d.notifications[n].retry_count < WORKER_MAX_RETRIES
       /\ \/ d.notifications[n].next_retry_at = NoTime
          \/ d.notifications[n].next_retry_at <= t

\* NotificationWorker.fetch_pending: ordered by created_at, the order of
\* insertion
NotificationWorker_fetch_pending(d) ==
    OrderBy({n \in DOMAIN d.notifications : NotificationWorker_eligible(d, n, now)},
            [n \in DOMAIN d.notifications |-> n],
            BatchSize)

\* NotificationWorker.should_retry
NotificationWorker_should_retry(d, n) ==
    d.notifications[n].retry_count < WORKER_MAX_RETRIES

\* NotificationWorker.process_item: the simulated delivery, logged
NotificationWorker_process_item(d, n) ==
    [d EXCEPT !.audit_logs =
        Append(@, WorkerAudit("notification.delivered", "notification", n))]

\* NotificationWorker.mark_processing, once the status was seen not to be
\* processing
NotificationWorker_mark_processing(d, n) ==
    [d EXCEPT !.notifications[n].status = "processing"]

\* A mark_completed that leaves the status as mark_processing set it.
NotificationWorker_mark_completed_noop(d, n) == d

\* NotificationWorker.mark_completed
NotificationWorker_mark_completed(d, n) ==
    [d EXCEPT !.notifications[n].status = "sent"]

\* A mark_failed that schedules every retry after the base delay.
NotificationWorker_mark_failed_fixed_delay(d, n, can_retry) ==
    [d EXCEPT !.notifications[n].retry_count = @ + 1,
              !.notifications[n].status = "failed",
              !.notifications[n].next_retry_at =
                 IF can_retry THEN now + RetryDelay ELSE NoTime,
              !.audit_logs =
                 Append(@, WorkerAudit("notification.failed", "notification", n))]

\* NotificationWorker.mark_failed: the count is incremented, then the next
\* attempt is scheduled when can_retry, cleared otherwise.
NotificationWorker_mark_failed(d, n, can_retry) ==
    LET retry_count == d.notifications[n].retry_count + 1
        backoff == RetryDelay * (2 ^ retry_count)
    IN [d EXCEPT !.notifications[n].retry_count = retry_count,
                 !.notifications[n].status = "failed",
                 !.notifications[n].next_retry_at =
                    IF can_retry THEN now + backoff ELSE NoTime,
                 !.audit_logs =
                    Append(@, WorkerAudit("notification.failed", "notification", n))]

\* WorkerBase.run for the NotificationWorker. An item of `failing` raises in
\* process_item: the session is rolled back (status and count as committed),
\* should_retry is asked, then mark_failed is committed.
RECURSIVE NotificationWorker_items(_, _, _, _)
NotificationWorker_items(d, items, failing, k) ==
    IF k > Len(items) THEN d
    ELSE LET n == items[k]
         IN IF d.notifications[n].status = "processing"
            THEN NotificationWorker_items(d, items, failing, k + 1)
            ELSE IF n \in failing
            THEN NotificationWorker_items(
                    Failed(session_commit(NotificationWorker_mark_failed(
                        session_rollback(d,
                            NotificationWorker_process_item(
                                NotificationWorker_mark_processing(d, n), n)),
                        n, NotificationWorker_should_retry(d, n)))),
                    items, failing, k + 1)
            ELSE NotificationWorker_items(
                    Processed(session_commit(NotificationWorker_mark_completed(
                        NotificationWorker_process_item(
                            NotificationWorker_mark_processing(d, n), n), n))),
                    items, failing, k + 1)

\* The worker process dies in the cycle while it holds the k-th item,
\* after process_item and before the item's commit: the items before it
\* were committed one by one, the rest is whatever the session had committed.
NotificationWorker_crash(d, items, k) ==
    LET before == NotificationWorker_items(d, SubSeq(items, 1, k - 1), {}, 1)
        n == items[k]
    IN IF before.notifications[n].status = "processing" THEN session_close(before)
       ELSE session_close(
                NotificationWorker_process_item(
                    NotificationWorker_mark_processing(before, n), n))

NotificationWorker_run(d, failing) ==
    NotificationWorker_items(d, NotificationWorker_fetch_pending(d), failing, 1)

\* ------------------------------------------------------------ event worker
\* A WHERE clause that takes every failed event back.
EventWorker_eligible_failed(d, e, t) ==
    d.task_events[e].processing_status \in {"pending", "failed"}

\* EventWorker.fetch_pending's WHERE clause at time t
EventWorker_eligible(d, e, t) ==
    \/ d.task_events[e].processing_status = "pending"
    \/ /\ d.task_events[e].processing_status = "failed"
       /\ d.task_events[e].retry_count < WORKER_MAX_RETRIES
       /\ d.task_events[e].processed_at # NoTime
       /\ d.task_events[e].processed_at < t - RetryDelay

\* EventWorker.fetch_pending: ordered by created_at, the order of insertion
EventWorker_fetch_pending(d) ==
    OrderBy({e \in DOMAIN d.task_events : EventWorker_eligible(d, e, now)},
            [e \in DOMAIN d.task_events |-> e],
            BatchSize)

\* EventWorker.should_retry
EventWorker_should_retry(d, e) ==
    d.task_events[e].retry_count < WORKER_MAX_RETRIES

\* process_item without the lookup of the type in EventType.
EventWorker_process_item_any(d, e, raising, resp) ==
    LET d1 == dispatch(d, TaskEventData(d, e), raising)
    IN IF EVENTS_ENABLED THEN publish_event(d1, e, resp) ELSE d1

\* EventWorker.process_item: dispatch to the consumers, then publish when
\* events are enabled; neither outcome is propagated.
EventWorker_process_item(d, e, raising, resp) ==
    IF d.task_events[e].event_type \notin EventType THEN d
    ELSE LET d1 == dispatch(d, TaskEventData(d, e), raising)
         IN IF EVENTS_ENABLED THEN publish_event(d1, e, resp) ELSE d1

\* EventWorker.mark_processing, once the status was seen not to be processing
EventWorker_mark_processing(d, e) ==
    [d EXCEPT !.task_events[e].processing_status = "processing"]

\* EventWorker.mark_completed
EventWorker_mark_completed(d, e) ==
    [d EXCEPT !.task_events[e].processing_status = "completed",
              !.task_events[e].processed_at = now]

\* EventWorker.mark_failed
EventWorker_mark_failed(d, e, can_retry) ==
    [d EXCEPT !.task_events[e].retry_count = @ + 1,
              !.task_events[e].processed_at = now,
              !.task_events[e].processing_status = "failed"]

\* WorkerBase.run for the EventWorker. An item of `failing` raises in
\* process_item before the dispatch and is rolled back and marked failed.
RECURSIVE EventWorker_items(_, _, _, _, _, _)
EventWorker_items(d, items, failing, raising, resp, k) ==
    IF k > Len(items) THEN d
    ELSE LET e == items[k]
         IN IF d.task_events[e].processing_status = "processing"
            THEN EventWorker_items(d, items, failing, raising, resp, k + 1)
            ELSE IF e \in failing
            THEN EventWorker_items(
                    Failed(session_commit(EventWorker_mark_failed(
                        session_rollback(d, EventWorker_mark_processing(d, e)),
                        e, EventWorker_should_retry(d, e)))),
                    items, failing, raising, resp, k + 1)
            ELSE EventWorker_items(
                    Processed(session_commit(EventWorker_mark_completed(
                        EventWorker_process_item(
                            EventWorker_mark_processing(d, e), e, raising, resp), e))),
                    items, failing, raising, resp, k + 1)

\* The worker process dies in the cycle while it holds the k-th event,
\* after process_item and before the event's commit.
EventWorker_crash(d, items, raising, resp, k) ==
    LET before == EventWorker_items(d, SubSeq(items, 1, k - 1), {}, raising,
                                    resp, 1)
        e == items[k]
    IN IF before.task_events[e].processing_status = "processing"
       THEN session_close(before)
       ELSE session_close(
                EventWorker_process_item(
                    EventWorker_mark_processing(before, e), e, raising, resp))

EventWorker_run(d, failing, raising, resp) ==
    EventWorker_items(d, EventWorker_fetch_pending(d), failing, raising, resp, 1)

\* ------------------------------------------------------------ actions
WithinBounds(d) ==
    /\ Len(d.tasks) <= MaxTasks
    /\ Len(d.reminders) <= MaxReminders
    /\ Len(d.notifications) <= MaxNotifications
    /\ Len(d.audit_logs) <= MaxAudit
    /\ Len(d.task_events) <= MaxEvents

\* Room in the outbox for the n events a request emits.
RoomFor(n) == ~EVENTS_ENABLED \/ Len(task_events) + n <= MaxEvents

DueInputs == {NoTime, MaxTime}

Env == <<now, EVENTS_ENABLED, broker, faults, ai_settings>>

Tables == <<tasks, reminders, notifications, audit_logs, task_events,
            publish_calls, process_calls, ai_result, sessions, item_calls,
            runner, rolled_back,
                   candidate, recommendation, transactions>>

\* Faults a request can meet: the consumers that raise, the broker's answer.
\* Neither is consulted when events are disabled.
RaisingSets ==
    IF EVENTS_ENABLED THEN SUBSET (faults \cap ConsumerNames) ELSE {{}}

Responses == IF EVENTS_ENABLED THEN BrokerResponses ELSE {"connect_error"}

\* The items for which a worker's process_item raises in one cycle.
FailingSets(worker, items) ==
    IF worker \in faults THEN SUBSET items ELSE {{}}

\* POST /tasks
CreateTaskWith(recurrence_types, due_ats) ==
    /\ Len(tasks) < MaxTasks
    /\ RoomFor(1)
    /\ \E recurrence_type \in recurrence_types, due_at \in due_ats,
          raising \in RaisingSets, resp \in Responses :
        LET d == create_task(DB, recurrence_type, due_at, raising, resp)
        IN WithinBounds(d) /\ Commit(d) /\ UNCHANGED Env

CreateTask == CreateTaskWith(RecurrenceType, DueInputs)

\* POST /tasks without a due date
CreateUndatedTask == CreateTaskWith(RecurrenceType, {NoTime})

\* POST /tasks with the defaults: no recurrence, no due date
CreatePlainTask == CreateTaskWith({"none"}, {NoTime})

\* PUT /tasks/{id} and the chat tools complete_task / update_task
UpdateTask ==
    /\ RoomFor(1)
    /\ \E t \in DOMAIN tasks, is_completed \in {"unset", "true", "false"},
          raising \in RaisingSets, resp \in Responses :
        /\ TaskExists(DB, t)
        /\ LET d == update_task(DB, t, is_completed, raising, resp)
           IN WithinBounds(d) /\ Commit(d) /\ UNCHANGED Env

\* POST /tasks/{id}/toggle
ToggleTask ==
    /\ RoomFor(1)
    /\ \E t \in DOMAIN tasks, raising \in RaisingSets, resp \in Responses :
        /\ TaskExists(DB, t)
        /\ LET d == toggle_task_completion(DB, t, raising, resp)
           IN WithinBounds(d) /\ Commit(d) /\ UNCHANGED Env

\* DELETE /tasks/{id}
DeleteTask ==
    /\ RoomFor(1)
    /\ \E t \in DOMAIN tasks, raising \in RaisingSets, resp \in Responses :
        /\ TaskExists(DB, t)
        /\ LET d == delete_task(DB, t, raising, resp)
           IN WithinBounds(d) /\ Commit(d) /\ UNCHANGED Env

\* POST /tasks/{id}/reminder: 404 without the task, 400 on a completed task
CreateReminder ==
    /\ Len(reminders) < MaxReminders
    /\ RoomFor(1)
    /\ \E t \in DOMAIN tasks, remind_at \in 0..MaxTime :
        /\ TaskExists(DB, t)
        /\ ~tasks[t].is_completed
        /\ LET d == create_reminder(DB, t, remind_at)
           IN WithinBounds(d) /\ Commit(d) /\ UNCHANGED Env

\* DELETE /tasks/{id}/reminder
CancelReminder ==
    \E t \in DOMAIN tasks :
        /\ TaskExists(DB, t)
        /\ PendingReminders(DB, t) # {}
        /\ LET d == cancel_task_reminders(DB, t)
           IN WithinBounds(d) /\ Commit(d) /\ UNCHANGED Env

\* ReminderService.mark_reminder_sent, committed by its caller
MarkReminderSent ==
    \E i \in DOMAIN reminders :
        LET d == mark_reminder_sent(DB, i)
        IN WithinBounds(d) /\ Commit(d) /\ UNCHANGED Env

\* ReminderService.mark_reminder_failed, committed by its caller
MarkReminderFailed ==
    \E i \in DOMAIN reminders :
        LET d == mark_reminder_failed(DB, i)
        IN WithinBounds(d) /\ Commit(d) /\ UNCHANGED Env

\* One ReminderWorker cycle with work to do
ReminderWorkerRun ==
    LET items == ReminderWorker_fetch_pending(DB)
    IN /\ Len(items) > 0
       /\ \E failing \in FailingSets("ReminderWorker",
                                     {items[k] : k \in DOMAIN items}) :
            LET d == ReminderWorker_run(DB, failing)
            IN WithinBounds(d) /\ Commit(d) /\ UNCHANGED Env

\* One NotificationWorker cycle with work to do
NotificationWorkerRun ==
    LET items == NotificationWorker_fetch_pending(DB)
    IN /\ Len(items) > 0
       /\ \E failing \in FailingSets("NotificationWorker",
                                     {items[k] : k \in DOMAIN items}) :
            LET d == NotificationWorker_run(DB, failing)
            IN WithinBounds(d) /\ Commit(d) /\ UNCHANGED Env

\* One EventWorker cycle with work to do
EventWorkerRun ==
    LET items == EventWorker_fetch_pending(DB)
    IN /\ Len(items) > 0
       /\ \E failing \in FailingSets("EventWorker",
                                     {items[k] : k \in DOMAIN items}),
             raising \in SUBSET (faults \cap ConsumerNames),
             resp \in BrokerResponses :
            LET d == EventWorker_run(DB, failing, raising, resp)
            IN WithinBounds(d) /\ Commit(d) /\ UNCHANGED Env

\* POST /tasks whose session.commit() raises: the session is closed with
\* the task, its outbox row and the consumers' rows unflushed to disk, and
\* _publish_pending_events is not reached.
CreateTaskRolledBack ==
    /\ Len(tasks) < MaxTasks
    /\ RoomFor(1)
    /\ \E recurrence_type \in RecurrenceType, due_at \in DueInputs,
          raising \in RaisingSets :
        LET d1 == create_task_rows(DB, recurrence_type, due_at, raising)
            d == [session_close(d1) EXCEPT !.rolled_back = NewEvents(DB, d1)]
        IN WithinBounds(d1) /\ Commit(d) /\ UNCHANGED Env

\* POST /tasks/{id}/reminder whose session.commit() raises
CreateReminderRolledBack ==
    /\ Len(reminders) < MaxReminders
    /\ RoomFor(1)
    /\ \E t \in DOMAIN tasks, remind_at \in 0..MaxTime :
        /\ TaskExists(DB, t)
        /\ ~tasks[t].is_completed
        /\ LET d1 == create_reminder(DB, t, remind_at)
               d == [session_close(d1) EXCEPT !.rolled_back = NewEvents(DB, d1)]
           IN WithinBounds(d1) /\ Commit(d) /\ UNCHANGED Env

\* generate_reminder_candidate(task) and (task, lead_hours) for a stored task
LeadInputs == {NoLead, HIGH_PRIORITY_LEAD_HOURS}

GenerateReminderCandidate ==
    \E t \in DOMAIN tasks, lead_hours \in LeadInputs :
        /\ candidate' = [task_id |-> t, lead_hours |-> lead_hours, at |-> now,
                         remind_at |-> generate_reminder_candidate(tasks[t],
                                                                   lead_hours)]
        /\ UNCHANGED <<Env, tasks, reminders, notifications, audit_logs,
                       task_events, publish_calls, process_calls, ai_result,
                       sessions, item_calls, runner, rolled_back,
                       recommendation, transactions>>

\* suggest_priority_change(task) for a stored task
SuggestPriorityChange ==
    \E t \in DOMAIN tasks :
        /\ recommendation' = [task_id |-> t, at |-> now,
                              result |-> suggest_priority_change(tasks[t])]
        /\ UNCHANGED <<Env, tasks, reminders, notifications, audit_logs,
                       task_events, publish_calls, process_calls, ai_result,
                       sessions, item_calls, runner, rolled_back, candidate,
                       transactions>>

\* A caller's transaction reaches create_reminder: the endpoint has found
\* the task open, or the handler has found the task; cancel_task_reminders
\* selects the task's pending reminders among the committed rows.
BeginCreateReminder(c) ==
    /\ transactions[c].pc = "idle"
    /\ \E t \in DOMAIN tasks, remind_at \in 0..MaxTime :
        /\ TaskExists(DB, t)
        /\ c = "api" => ~tasks[t].is_completed
        /\ transactions' = [transactions EXCEPT ![c] =
                [pc |-> "selected", task_id |-> t, remind_at |-> remind_at,
                 pending |-> PendingReminders(DB, t)]]
    /\ UNCHANGED <<Env, tasks, reminders, notifications, audit_logs, task_events,
                   publish_calls, process_calls, ai_result, sessions, item_calls,
                   runner, rolled_back, candidate, recommendation>>

\* The rest of create_reminder and the caller's session.commit(): the
\* updates of the selected rows, the insert and the events become visible.
CommitCreateReminder(c) ==
    /\ transactions[c].pc = "selected"
    /\ Len(reminders) < MaxReminders
    /\ RoomFor(1 + Cardinality(transactions[c].pending))
    /\ LET d == create_reminder_selected(DB, transactions[c].task_id,
                                         transactions[c].remind_at,
                                         transactions[c].pending)
       IN /\ WithinBounds(d)
          /\ Commit([d EXCEPT !.transactions[c] = NoTransaction])
    /\ UNCHANGED Env

\* The worker process is killed during an EventWorker cycle.
EventWorkerCrash ==
    LET items == EventWorker_fetch_pending(DB)
    IN \E k \in DOMAIN items, resp \in BrokerResponses :
          LET d == EventWorker_crash(DB, items, {}, resp, k)
          IN WithinBounds(d) /\ Commit(d) /\ UNCHANGED Env

\* The worker process is killed during a NotificationWorker cycle.
NotificationWorkerCrash ==
    LET items == NotificationWorker_fetch_pending(DB)
    IN \E k \in DOMAIN items :
          LET d == NotificationWorker_crash(DB, items, k)
          IN WithinBounds(d) /\ Commit(d) /\ UNCHANGED Env

\* TaskEvent.event_type is a free string column: a row whose type is not a
\* member of EventType, as another release of the producer leaves it.
UnknownEventType == "task.archived.v2"

StoreUnknownEvent ==
    /\ Len(task_events) < MaxEvents
    /\ \E t \in DOMAIN tasks :
          LET d == persist_event(DB, UnknownEventType, t, EventData("none", None))
          IN WithinBounds(d) /\ Commit(d) /\ UNCHANGED Env

\* The recommendations a caller can pass for the stored tasks: the
\* suggested_action carries suggested_value for a priority change and
\* remind_at for a reminder, each of which may be missing.
SuggestedActions(recommendation_type) ==
    CASE recommendation_type = "priority_change" ->
            {[suggested_value |-> v, remind_at |-> NoTime] : v \in {"", "high"}}
      [] recommendation_type = "add_reminder" ->
            {[suggested_value |-> "", remind_at |-> r] : r \in {NoTime, now}}
      [] OTHER -> {[suggested_value |-> "", remind_at |-> NoTime]}

Recommendations ==
    UNION {{[recommendation_type |-> ty, task_id |-> t, confidence |-> c,
             suggested_value |-> a.suggested_value, remind_at |-> a.remind_at] :
                t \in DOMAIN tasks, c \in RecommendationConfidence,
                a \in SuggestedActions(ty)} : ty \in RecommendationType}

\* AIExecutor.execute_recommendation, committed by its caller
AIExecute ==
    \E rec \in Recommendations, dry_run \in BOOLEAN :
        LET d == execute_recommendation(DB, rec, dry_run)
        IN /\ Len(d.audit_logs) <= MaxAILogs
           /\ WithinBounds(d) /\ Commit(d) /\ UNCHANGED Env

\* ------------------------------------------------------------ concurrent instances
\* Two NotificationWorker instances on the same store, each with a session
\* of its own. A session sees what was committed when it read (READ
\* COMMITTED); the rows it loaded stay in its identity map as loaded; a
\* flushed UPDATE holds the row until the session commits.
WorkerInstances == {1, 2}

IdleSession == [pc |-> "idle", items |-> <<>>, k |-> 0, loaded |-> <<>>]

\* The item a session is working on
CurrentItem(w) == sessions[w].items[sessions[w].k]

\* The rows a session has flushed and not committed
HeldRows(w) == IF sessions[w].pc = "process" THEN {CurrentItem(w)} ELSE {}

\* The loop of WorkerBase.run moves to the next item or ends the cycle.
NextItem(session) ==
    IF session.k < Len(session.items)
    THEN [session EXCEPT !.pc = "mark", !.k = @ + 1]
    ELSE IdleSession

\* WorkerBase.run: fetch_pending in the instance's new session
InstanceFetch(w) ==
    /\ sessions[w].pc = "idle"
    /\ LET items == NotificationWorker_fetch_pending(DB)
       IN /\ items # <<>>
          /\ sessions' = [sessions EXCEPT ![w] =
                [pc |-> "mark", items |-> items, k |-> 1,
                 loaded |-> [n \in DOMAIN notifications |-> notifications[n].status]]]
    /\ UNCHANGED <<Env, tasks, reminders, notifications, audit_logs, task_events,
                   publish_calls, process_calls, ai_result, item_calls, runner,
                   rolled_back,
                   candidate, recommendation, transactions>>

\* NotificationWorker.mark_processing: the status tested is the one the
\* session loaded; the flush waits for a row another session holds.
InstanceMarkProcessing(w) ==
    /\ sessions[w].pc = "mark"
    /\ LET n == CurrentItem(w)
       IN IF sessions[w].loaded[n] = "processing"
          THEN sessions' = [sessions EXCEPT ![w] = NextItem(@)]
          ELSE /\ \A other \in WorkerInstances \ {w} : n \notin HeldRows(other)
               /\ sessions' = [sessions EXCEPT ![w].pc = "process"]
    /\ UNCHANGED <<Env, tasks, reminders, notifications, audit_logs, task_events,
                   publish_calls, process_calls, ai_result, item_calls, runner,
                   rolled_back,
                   candidate, recommendation, transactions>>

\* WorkerBase.run after mark_processing returned true: process_item,
\* mark_completed, session.commit()
InstanceProcessItem(w) ==
    /\ sessions[w].pc = "process"
    /\ LET n == CurrentItem(w)
           d == NotificationWorker_mark_completed(
                    NotificationWorker_process_item(
                        NotificationWorker_mark_processing(DB, n), n), n)
       IN /\ WithinBounds(d)
          /\ Commit([d EXCEPT !.sessions[w] = NextItem(@),
                              !.item_calls = @ \cup {[worker |-> w, item |-> n]}])
    /\ UNCHANGED Env

\* WorkerBase.run of a ReminderWorker instance: fetch_pending in the
\* instance's new session.
ReminderInstanceFetch(w) ==
    /\ sessions[w].pc = "idle"
    /\ LET items == ReminderWorker_fetch_pending(DB)
       IN /\ items # <<>>
          /\ sessions' = [sessions EXCEPT ![w] =
                [pc |-> "mark", items |-> items, k |-> 1,
                 loaded |-> [i \in DOMAIN reminders |-> reminders[i].status]]]
    /\ UNCHANGED <<Env, tasks, reminders, notifications, audit_logs, task_events,
                   publish_calls, process_calls, ai_result, item_calls, runner,
                   rolled_back, candidate, recommendation, transactions>>

\* One item of a ReminderWorker instance: mark_processing tests the status
\* the session loaded and writes nothing; process_item, mark_completed and
\* session.commit() follow.
ReminderInstanceItem(w) ==
    /\ sessions[w].pc = "mark"
    /\ LET i == CurrentItem(w)
       IN IF sessions[w].loaded[i] # "pending"
          THEN Commit([DB EXCEPT !.sessions[w] = NextItem(@)])
          ELSE LET d == ReminderWorker_mark_completed(
                            ReminderWorker_process_item(DB, i), i)
               IN /\ WithinBounds(d)
                  /\ Commit([d EXCEPT
                        !.sessions[w] = NextItem(@),
                        !.item_calls = @ \cup {[worker |-> w, item |-> i]}])
    /\ UNCHANGED Env

\* Time passes until the backoff window of a failed event is about to end,
\* or has ended.
AwaitEventRetry ==
    /\ \E e \in DOMAIN task_events :
        /\ task_events[e].processing_status = "failed"
        /\ \E t \in {task_events[e].processed_at + RetryDelay,
                     task_events[e].processed_at + RetryDelay + 1} :
            /\ t > now
            /\ t <= MaxRetryTime
            /\ now' = t
    /\ UNCHANGED <<EVENTS_ENABLED, broker, faults, ai_settings, Tables>>

\* POST /tasks/{id}/reminder racing with DELETE /tasks/{id}: the endpoint
\* found the task, the deletion committed, then create_reminder inserted
\* the reminder and the endpoint committed.
CreateReminderAfterDelete ==
    /\ Len(reminders) < MaxReminders
    /\ RoomFor(1)
    /\ \E t \in DOMAIN tasks, remind_at \in 0..MaxTime :
        /\ ~TaskExists(DB, t)
        /\ LET d == create_reminder(DB, t, remind_at)
           IN WithinBounds(d) /\ Commit(d) /\ UNCHANGED Env

\* ------------------------------------------------------------ worker runner
\* run_loop(max_iterations = None)
NoLimit == -1

\* WorkerRunner._workers, and the list in another order
_workers_reordered == <<"EventWorker", "ReminderWorker", "NotificationWorker">>

_workers == <<"EventWorker", "NotificationWorker", "ReminderWorker">>

\* WorkerRunner.__init__: no shutdown requested; run_loop not called yet.
\* `ran` and `worker_results` are those of the cycle in progress or, between
\* cycles, of the last one; `late_cycles` counts the cycles started while
\* the flag was set.
NewRunner ==
    [pc |-> "new", _shutdown_requested |-> FALSE, max_iterations |-> NoLimit,
     iterations |-> 0, ran |-> <<>>, worker_results |-> <<>>, late_cycles |-> 0]

\* worker.run(session) of the worker with this name; nothing raises unless
\* the worker is in `faults`
worker_run(name, d, failing, resp) ==
    CASE name = "EventWorker" -> EventWorker_run(d, failing, {}, resp)
      [] name = "NotificationWorker" -> NotificationWorker_run(d, failing)
      [] name = "ReminderWorker" -> ReminderWorker_run(d, failing)

worker_items(name, d) ==
    CASE name = "EventWorker" -> Fetched(EventWorker_fetch_pending(d))
      [] name = "NotificationWorker" -> Fetched(NotificationWorker_fetch_pending(d))
      [] name = "ReminderWorker" -> Fetched(ReminderWorker_fetch_pending(d))

\* A loop that never sees its limit.
limit_reached_never(r) == FALSE

\* run_loop: max_iterations is not None and iterations >= max_iterations
limit_reached(r) ==
    r.max_iterations # NoLimit /\ r.iterations >= r.max_iterations

\* WorkerRunner.run_loop is called: iterations = 0, signal handlers set
RunLoop ==
    /\ runner.pc = "new"
    /\ \E max_iterations \in {NoLimit} \cup 0..MaxIterations :
        runner' = [runner EXCEPT !.pc = "while", !.max_iterations = max_iterations]
    /\ UNCHANGED <<Env, tasks, reminders, notifications, audit_logs, task_events,
                   publish_calls, process_calls, ai_result, sessions, item_calls,
                   rolled_back,
                   candidate, recommendation, transactions>>

\* run_loop: while not self._shutdown_requested
LoopTest ==
    /\ runner.pc = "while"
    /\ runner' = [runner EXCEPT !.pc =
                    IF runner._shutdown_requested THEN "returned" ELSE "limit"]
    /\ UNCHANGED <<Env, tasks, reminders, notifications, audit_logs, task_events,
                   publish_calls, process_calls, ai_result, sessions, item_calls,
                   rolled_back,
                   candidate, recommendation, transactions>>

\* run_loop: the iteration limit, then run_once begins. A run without a
\* limit is followed for MaxIterations cycles.
LimitTest ==
    /\ runner.pc = "limit"
    /\ IF limit_reached(runner)
       THEN runner' = [runner EXCEPT !.pc = "returned"]
       ELSE /\ runner.iterations < MaxIterations \/ runner._shutdown_requested
            /\ runner' = [runner EXCEPT
                    !.pc = "run_once", !.ran = <<>>, !.worker_results = <<>>,
                    !.late_cycles = IF runner._shutdown_requested THEN @ + 1 ELSE @]
    /\ UNCHANGED <<Env, tasks, reminders, notifications, audit_logs, task_events,
                   publish_calls, process_calls, ai_result, sessions, item_calls,
                   rolled_back,
                   candidate, recommendation, transactions>>

\* run_once: the next worker of _workers runs and its result is recorded;
\* after the last one run_once returns and run_loop counts the iteration
\* and sleeps unless shutdown was requested.
RunWorker ==
    /\ runner.pc = "run_once"
    /\ LET name == _workers[Len(runner.ran) + 1]
       IN \E failing \in FailingSets(name, worker_items(name, DB)),
             resp \in BrokerResponses :
            LET d == worker_run(name, DB, failing, resp)
                last == Len(runner.ran) + 1 = Len(_workers)
            IN /\ WithinBounds(d)
               /\ Commit([d EXCEPT
                    !.runner.ran = Append(@, name),
                    !.runner.worker_results = Append(@, WorkerResult(d)),
                    !.runner.iterations = IF last THEN @ + 1 ELSE @,
                    !.runner.pc =
                        IF ~last THEN "run_once"
                        ELSE IF runner._shutdown_requested THEN "while"
                        ELSE "sleep"])
    /\ UNCHANGED Env

\* run_loop: time.sleep(interval)
Sleep ==
    /\ runner.pc = "sleep"
    /\ runner' = [runner EXCEPT !.pc = "while"]
    /\ now' = IF now < MaxTime THEN now + 1 ELSE now
    /\ UNCHANGED <<EVENTS_ENABLED, broker, faults, ai_settings, tasks, reminders,
                   notifications, audit_logs, task_events, publish_calls,
                   process_calls, ai_result, sessions, item_calls, rolled_back,
                   candidate, recommendation, transactions>>

\* A SIGINT or SIGTERM handled, or request_shutdown called, at any point
RequestShutdown ==
    /\ runner.pc \notin {"new", "returned"}
    /\ ~runner._shutdown_requested
    /\ runner' = [runner EXCEPT !._shutdown_requested = TRUE]
    /\ UNCHANGED <<Env, tasks, reminders, notifications, audit_logs, task_events,
                   publish_calls, process_calls, ai_result, sessions, item_calls,
                   rolled_back,
                   candidate, recommendation, transactions>>

\* Time passes until a scheduled retry is due.
AwaitRetry ==
    /\ \E n \in DOMAIN notifications :
        /\ notifications[n].status = "failed"
        /\ notifications[n].next_retry_at > now
        /\ notifications[n].next_retry_at <= MaxRetryTime
        /\ now' = notifications[n].next_retry_at
    /\ UNCHANGED <<EVENTS_ENABLED, broker, faults, ai_settings, Tables>>

\* The Dapr sidecar or the broker behind it goes away, and comes back.
BrokerFail ==
    /\ broker = "up"
    /\ broker' = "down"
    /\ UNCHANGED <<now, EVENTS_ENABLED, faults, ai_settings, Tables>>

BrokerRecover ==
    /\ broker = "down"
    /\ broker' = "up"
    /\ UNCHANGED <<now, EVENTS_ENABLED, faults, ai_settings, Tables>>

Tick ==
    /\ now < MaxTime
    /\ now' = now + 1
    /\ UNCHANGED <<EVENTS_ENABLED, broker, faults, ai_settings, Tables>>

EmptyTables ==
    /\ now = 0
    /\ tasks = <<>>
    /\ reminders = <<>>
    /\ notifications = <<>>
    /\ audit_logs = <<>>
    /\ task_events = <<>>
    /\ publish_calls = {}
    /\ process_calls = {}
    /\ ai_result = NoResult
    /\ sessions = [w \in WorkerInstances |-> IdleSession]
    /\ item_calls = {}
    /\ runner = NewRunner
    /\ rolled_back = {}
    /\ candidate = NoCall
    /\ recommendation = NoSuggestionCall
    /\ transactions = [c \in Callers |-> NoTransaction]

\* ------------------------------------------------------------ reminders
\* Events disabled: the task and reminder services and the ReminderWorker,
\* whose process_item may raise.
InitReminders ==
    /\ EmptyTables
    /\ ai_settings = DefaultAISettings
    /\ EVENTS_ENABLED = FALSE
    /\ broker = "down"
    /\ faults = {"ReminderWorker"}

NextReminders ==
    \/ CreatePlainTask
    \/ UpdateTask
    \/ ToggleTask
    \/ DeleteTask
    \/ CreateReminder
    \/ CancelReminder
    \/ MarkReminderSent
    \/ MarkReminderFailed
    \/ ReminderWorkerRun
    \/ Tick

SpecReminders == InitReminders /\ [][NextReminders]_vars

\* ------------------------------------------------------------ reminder service
\* The reminder endpoints and the task operations that call into the
\* reminder service, one committed request at a time.
InitReminderService ==
    /\ EmptyTables
    /\ ai_settings = DefaultAISettings
    /\ EVENTS_ENABLED = FALSE
    /\ broker = "down"
    /\ faults = {}

NextReminderService ==
    \/ CreatePlainTask
    \/ ToggleTask
    \/ DeleteTask
    \/ CreateReminder
    \/ CancelReminder
    \/ Tick

SpecReminderService == InitReminderService /\ [][NextReminderService]_vars

\* ------------------------------------------------------------ notifications
\* Reminders fall due, the ReminderWorker queues their notifications, the
\* NotificationWorker delivers them with deliveries that may fail.
InitNotifications ==
    /\ EmptyTables
    /\ ai_settings = DefaultAISettings
    /\ EVENTS_ENABLED = FALSE
    /\ broker = "down"
    /\ faults = {"NotificationWorker"}

NextNotifications ==
    \/ CreatePlainTask
    \/ CreateReminder
    \/ ReminderWorkerRun
    \/ NotificationWorkerRun
    \/ AwaitRetry

SpecNotifications == InitNotifications /\ [][NextNotifications]_vars

\* ------------------------------------------------------------ events
\* Events enabled: the task service emits, dispatches inline and publishes
\* after its commit; the EventWorker re-scans the outbox; the broker comes
\* and goes.
InitEvents ==
    /\ EmptyTables
    /\ ai_settings = DefaultAISettings
    /\ EVENTS_ENABLED = TRUE
    /\ broker \in {"up", "down"}
    /\ faults = {}

NextEvents ==
    \/ CreateTask
    \/ ToggleTask
    \/ CreateReminder
    \/ EventWorkerRun
    \/ BrokerFail
    \/ BrokerRecover

SpecEvents == InitEvents /\ [][NextEvents]_vars

\* The same with a broker that never answers.
InitOutage ==
    /\ EmptyTables
    /\ ai_settings = DefaultAISettings
    /\ EVENTS_ENABLED = TRUE
    /\ broker = "down"
    /\ faults = {}

NextOutage ==
    \/ CreatePlainTask
    \/ UpdateTask
    \/ ToggleTask
    \/ DeleteTask
    \/ EventWorkerRun
    \/ Tick

SpecOutage == InitOutage /\ [][NextOutage]_vars

\* Events enabled, broker up, one consumer that may raise.
InitDispatch ==
    /\ EmptyTables
    /\ ai_settings = DefaultAISettings
    /\ EVENTS_ENABLED = TRUE
    /\ broker = "up"
    /\ \E consumer \in ConsumerNames : faults = {consumer}

NextDispatch ==
    \/ CreateUndatedTask
    \/ ToggleTask
    \/ DeleteTask
    \/ EventWorkerRun

SpecDispatch == InitDispatch /\ [][NextDispatch]_vars

\* Events enabled, nothing raising, the broker up or away: undated tasks, toggled
\* and deleted, and their reminders, with the EventWorker handing the
\* reminder events to the consumers.
InitConsumers ==
    /\ EmptyTables
    /\ ai_settings = DefaultAISettings
    /\ EVENTS_ENABLED = TRUE
    /\ broker \in {"up", "down"}
    /\ faults = {}

NextConsumers ==
    \/ CreatePlainTask
    \/ ToggleTask
    \/ DeleteTask
    \/ CreateReminder
    \/ EventWorkerRun

SpecConsumers == InitConsumers /\ [][NextConsumers]_vars

\* ------------------------------------------------------------ concurrent requests
\* Reminders are set on a task by the endpoint and by the AI executor, each
\* in a transaction of its own; a reminder is also set in one step when
\* nothing else runs.
InitConcurrentReminders ==
    /\ EmptyTables
    /\ ai_settings = DefaultAISettings
    /\ EVENTS_ENABLED \in BOOLEAN
    /\ broker = "down"
    /\ faults = {}

NextConcurrentReminders ==
    \/ CreatePlainTask
    \/ \E c \in Callers :
        \/ BeginCreateReminder(c)
        \/ CommitCreateReminder(c)

SpecConcurrentReminders ==
    InitConcurrentReminders /\ [][NextConcurrentReminders]_vars

\* ------------------------------------------------------------ crashes
\* Events enabled: tasks are created, the EventWorker and the
\* NotificationWorker run their cycles, and the worker process may be killed
\* in the middle of one. A cycle that has work to do is eventually run.
InitCrash ==
    /\ EmptyTables
    /\ ai_settings = DefaultAISettings
    /\ EVENTS_ENABLED = TRUE
    /\ broker \in {"up", "down"}
    /\ faults = {}

NextCrash ==
    \/ CreatePlainTask
    \/ EventWorkerRun
    \/ NotificationWorkerRun
    \/ EventWorkerCrash
    \/ NotificationWorkerCrash

SpecCrash ==
    /\ InitCrash
    /\ [][NextCrash]_vars
    /\ WF_vars(EventWorkerRun)
    /\ WF_vars(NotificationWorkerRun)

\* ------------------------------------------------------------ AI automation
\* Tasks with reminders and a caller of the AI executor, under every
\* enable flag and threshold.
InitAI ==
    /\ EmptyTables
    /\ EVENTS_ENABLED = FALSE
    /\ broker = "down"
    /\ faults = {}
    /\ ai_settings \in [enabled : BOOLEAN, threshold : Thresholds]

NextAI ==
    \/ CreatePlainTask
    \/ DeleteTask
    \/ AIExecute

SpecAI == InitAI /\ [][NextAI]_vars

\* ------------------------------------------------------------ two instances
\* Reminders turn into notifications, which two NotificationWorker
\* instances deliver concurrently; nothing raises.
InitInstances ==
    /\ EmptyTables
    /\ ai_settings = DefaultAISettings
    /\ EVENTS_ENABLED = FALSE
    /\ broker = "down"
    /\ faults = {}

NextInstances ==
    \/ CreatePlainTask
    \/ CreateReminder
    \/ ReminderWorkerRun
    \/ \E w \in WorkerInstances :
        \/ InstanceFetch(w)
        \/ InstanceMarkProcessing(w)
        \/ InstanceProcessItem(w)

SpecInstances == InitInstances /\ [][NextInstances]_vars

\* Two ReminderWorker instances on the same store, beside cycles that run
\* alone from fetch to the last commit.
NextReminderInstances ==
    \/ CreatePlainTask
    \/ CreateReminder
    \/ ReminderWorkerRun
    \/ Tick
    \/ \E w \in WorkerInstances :
        \/ ReminderInstanceFetch(w)
        \/ ReminderInstanceItem(w)

SpecReminderInstances == InitInstances /\ [][NextReminderInstances]_vars

\* ------------------------------------------------------------ event retries
\* Outbox events whose processing may fail, retried after the backoff window
\* until the retries are exhausted.
InitEventRetry ==
    /\ EmptyTables
    /\ ai_settings = DefaultAISettings
    /\ EVENTS_ENABLED = TRUE
    /\ broker = "up"
    /\ faults = {"EventWorker"}

NextEventRetry ==
    \/ CreatePlainTask
    \/ EventWorkerRun
    \/ AwaitEventRetry

SpecEventRetry == InitEventRetry /\ [][NextEventRetry]_vars

\* ------------------------------------------------------------ retries
\* Outbox events and notifications whose processing may fail in any cycle;
\* both workers retry after their backoff until the retries are exhausted.
InitRetries ==
    /\ EmptyTables
    /\ ai_settings = DefaultAISettings
    /\ EVENTS_ENABLED = TRUE
    /\ broker = "up"
    /\ faults = {"EventWorker", "NotificationWorker"}

NextRetries ==
    \/ CreatePlainTask
    \/ EventWorkerRun
    \/ NotificationWorkerRun
    \/ AwaitEventRetry
    \/ AwaitRetry

SpecRetries == InitRetries /\ [][NextRetries]_vars

\* ------------------------------------------------------------ unknown events
\* The outbox holds rows of known and of unknown types; the EventWorker
\* scans it as time passes.
InitUnknownEvents ==
    /\ EmptyTables
    /\ ai_settings = DefaultAISettings
    /\ EVENTS_ENABLED = TRUE
    /\ broker \in {"up", "down"}
    /\ faults = {}

NextUnknownEvents ==
    \/ CreatePlainTask
    \/ StoreUnknownEvent
    \/ EventWorkerRun
    \/ Tick

SpecUnknownEvents == InitUnknownEvents /\ [][NextUnknownEvents]_vars

\* ------------------------------------------------------------ transactions
\* Events enabled: requests that commit and requests whose commit raises,
\* with the broker up or down.
InitTransactions ==
    /\ EmptyTables
    /\ ai_settings = DefaultAISettings
    /\ EVENTS_ENABLED = TRUE
    /\ broker \in {"up", "down"}
    /\ faults = {}

NextTransactions ==
    \/ CreateTask
    \/ CreateTaskRolledBack
    \/ CreateReminder
    \/ CreateReminderRolledBack
    \/ ToggleTask

SpecTransactions == InitTransactions /\ [][NextTransactions]_vars

\* ------------------------------------------------------------ reminder candidates
\* One stored task, completed or not, with no due date or one from the past
\* to more than five days ahead; candidates are generated for it.
InitCandidates ==
    /\ EVENTS_ENABLED = FALSE
    /\ broker = "down"
    /\ faults = {}
    /\ ai_settings = DefaultAISettings
    /\ now \in 0..MaxTime
    /\ \E is_completed \in BOOLEAN, due_at \in {NoTime} \cup 0..MaxDueAt :
          tasks = <<[exists |-> TRUE, is_completed |-> is_completed,
                     recurrence_type |-> "none", due_at |-> due_at,
                     priority |-> "medium"]>>
    /\ reminders = <<>>
    /\ notifications = <<>>
    /\ audit_logs = <<>>
    /\ task_events = <<>>
    /\ publish_calls = {}
    /\ process_calls = {}
    /\ ai_result = NoResult
    /\ sessions = [w \in WorkerInstances |-> IdleSession]
    /\ item_calls = {}
    /\ runner = NewRunner
    /\ rolled_back = {}
    /\ candidate = NoCall
    /\ recommendation = NoSuggestionCall
    /\ transactions = [c \in Callers |-> NoTransaction]

NextCandidates == GenerateReminderCandidate

\* ------------------------------------------------------------ priority insights
\* One stored task of any priority, completed or not, with no due date or
\* one from two days back to three days ahead of the time of the call.
InitInsights ==
    /\ EVENTS_ENABLED = FALSE
    /\ broker = "down"
    /\ faults = {}
    /\ ai_settings = DefaultAISettings
    /\ now = InsightTime
    /\ \E is_completed \in BOOLEAN, priority \in Priority,
          due_at \in {NoTime} \cup 0..MaxDueAt :
          tasks = <<[exists |-> TRUE, is_completed |-> is_completed,
                     recurrence_type |-> "none", due_at |-> due_at,
                     priority |-> priority]>>
    /\ reminders = <<>>
    /\ notifications = <<>>
    /\ audit_logs = <<>>
    /\ task_events = <<>>
    /\ publish_calls = {}
    /\ process_calls = {}
    /\ ai_result = NoResult
    /\ sessions = [w \in WorkerInstances |-> IdleSession]
    /\ item_calls = {}
    /\ runner = NewRunner
    /\ rolled_back = {}
    /\ candidate = NoCall
    /\ recommendation = NoSuggestionCall
    /\ transactions = [c \in Callers |-> NoTransaction]

NextInsights == SuggestPriorityChange

SpecInsights == InitInsights /\ [][NextInsights]_vars

SpecCandidates == InitCandidates /\ [][NextCandidates]_vars

\* ------------------------------------------------------------ orphaned reminders
\* Reminder requests that race with the deletion of their task, and the
\* ReminderWorker; nothing raises.
InitOrphans ==
    /\ EmptyTables
    /\ ai_settings = DefaultAISettings
    /\ EVENTS_ENABLED = FALSE
    /\ broker = "down"
    /\ faults = {}

NextOrphans ==
    \/ CreatePlainTask
    \/ DeleteTask
    \/ CreateReminder
    \/ CreateReminderAfterDelete
    \/ ReminderWorkerRun
    \/ Tick

SpecOrphans == InitOrphans /\ [][NextOrphans]_vars

\* ------------------------------------------------------------ reminder worker
\* Due reminders handled by one ReminderWorker whose processing may raise,
\* next to the service calls that finish a reminder.
InitReminderWorker ==
    /\ EmptyTables
    /\ ai_settings = DefaultAISettings
    /\ EVENTS_ENABLED = FALSE
    /\ broker = "down"
    /\ faults = {"ReminderWorker"}

NextReminderWorker ==
    \/ CreatePlainTask
    \/ CreateReminder
    \/ MarkReminderSent
    \/ MarkReminderFailed
    \/ ReminderWorkerRun
    \/ Tick

SpecReminderWorker == InitReminderWorker /\ [][NextReminderWorker]_vars

\* ------------------------------------------------------------ runner
\* A WorkerRunner looping over the three workers while reminders are
\* created; the ReminderWorker's items may fail; nothing requests shutdown.
InitRunner ==
    /\ EmptyTables
    /\ ai_settings = DefaultAISettings
    /\ EVENTS_ENABLED = FALSE
    /\ broker = "down"
    /\ faults = {"ReminderWorker"}

RunnerStep == LoopTest \/ LimitTest \/ RunWorker \/ Sleep

NextRunner ==
    \/ CreatePlainTask
    \/ CreateReminder
    \/ RunLoop
    \/ RunnerStep

SpecRunner == InitRunner /\ [][NextRunner]_vars

\* The loop alone, on a store where tasks are created and nothing is due;
\* the runner's thread is scheduled: a step it can take is eventually taken.
NextLoop ==
    \/ CreatePlainTask
    \/ RunLoop
    \/ RunnerStep
    \/ RequestShutdown

SpecLoop == InitRunner /\ [][NextLoop]_vars /\ WF_vars(RunnerStep)

\* ============================================================ properties
PendingOf(rs, t) ==
    {i \in DOMAIN rs : rs[i].task_id = t /\ rs[i].status = "pending"}

Terminal == {"sent", "cancelled", "failed"}

\* C1: after every create_reminder or cancel_task_reminders call (and the
\* task operations that call them), a task has at most one pending
\* reminder; a create_reminder call on a task that had a pending reminder
\* leaves that one cancelled and the new reminder as the only pending one.
C1_AtMostOnePendingReminder ==
    [][/\ \A t \in DOMAIN tasks' : Cardinality(PendingOf(reminders', t)) <= 1
       /\ Len(reminders') > Len(reminders) =>
            LET n == Len(reminders')
                t == reminders'[n].task_id
            IN /\ PendingOf(reminders', t) = {n}
               /\ \A i \in PendingOf(reminders, t) :
                    reminders'[i].status = "cancelled"]_vars

\* A second create_reminder on a task replaced the first reminder.
C1_Replaced ==
    \E i, j \in DOMAIN reminders :
        /\ i < j
        /\ reminders[i].task_id = reminders[j].task_id
        /\ reminders[i].status = "cancelled"
        /\ reminders[j].status = "pending"

\* C2: a ReminderWorker cycle that processes, without an exception, a due
\* pending reminder whose task is completed commits the reminder as
\* cancelled, not sent, and creates no NotificationDelivery for it.
C2_CompletedTaskReminderCancelled ==
    [][\A k \in DOMAIN ReminderWorker_fetch_pending(DB) :
        LET i == ReminderWorker_fetch_pending(DB)[k]
            t == reminders[i].task_id
        IN (/\ ReminderWorkerRun
            /\ TaskExists(DB, t)
            /\ tasks[t].is_completed
            /\ reminders'[i].status # "failed")
           => /\ reminders'[i].status = "cancelled"
              /\ \A n \in DOMAIN notifications' :
                    notifications'[n].reminder_id # i]_vars

\* The worker recorded the cancellation of a reminder of a completed task
\* and the reminder is stored as sent.
C2_CancelledThenSent ==
    \E i \in DOMAIN reminders :
        /\ reminders[i].status = "sent"
        /\ tasks[reminders[i].task_id].is_completed
        /\ \E a \in DOMAIN audit_logs :
            /\ audit_logs[a].action = "reminder.cancelled"
            /\ audit_logs[a].entity_id = i
        /\ \A n \in DOMAIN notifications : notifications[n].reminder_id # i

\* C3: a notification whose delivery has failed max_retries times is
\* failed with next_retry_at null, and fetch_pending never selects it again.
C3_ExhaustedNotificationCleared ==
    \A n \in DOMAIN notifications :
        (/\ notifications[n].status = "failed"
         /\ notifications[n].retry_count >= WORKER_MAX_RETRIES)
        => /\ notifications[n].next_retry_at = NoTime
           /\ \A t \in now..(MaxRetryTime + RetryDelay * (2 ^ WORKER_MAX_RETRIES)) :
                ~NotificationWorker_eligible(DB, n, t)

\* A notification has failed max_retries times.
C3_Exhausted ==
    \E n \in DOMAIN notifications :
        /\ notifications[n].status = "failed"
        /\ notifications[n].retry_count = WORKER_MAX_RETRIES

\* C4: with a broker that always fails, an event emitted in a transaction
\* that commits and is then passed to publish_event leaves exactly one outbox
\* row for the event, published = false and published_at unset, and
\* publish_event returns false without raising.
C4_FailedPublishKeepsOneUnpublishedRow ==
    \A c \in publish_calls :
        /\ c.ret = "false"
        /\ Cardinality({k \in DOMAIN task_events :
                          task_events[k].id = c.event_id}) = 1
        /\ \A k \in DOMAIN task_events :
            task_events[k].id = c.event_id
            => /\ ~task_events[k].published
               /\ task_events[k].published_at = NoTime

\* The task service has passed an event to publish_event and the worker has
\* not yet touched it.
C4_PublishAttempted ==
    \E c \in publish_calls :
        /\ task_events[c.event_id].processing_status = "pending"
        /\ c.ret = "false"

\* C5: an event whose publish failed remains eligible for the EventWorker's
\* retry for as long as published is false.
C5_UnpublishedStaysEligible ==
    \A e \in DOMAIN task_events :
        ~task_events[e].published
        => \/ task_events[e].processing_status = "pending"
           \/ /\ task_events[e].processing_status = "failed"
              /\ task_events[e].retry_count < WORKER_MAX_RETRIES

\* The broker is reachable again and an unpublished event is completed.
C5_CompletedUnpublished ==
    \E e \in DOMAIN task_events :
        /\ ~task_events[e].published
        /\ task_events[e].processing_status = "completed"
        /\ broker = "up"

\* C6: every built-in consumer is idempotent per event id: dispatching an
\* event a second time leaves the AuditLog and NotificationDelivery rows
\* that dispatching it once leaves.
C6_DispatchTwiceAsOnce ==
    \A e \in DOMAIN task_events :
        LET once == dispatch(DB, TaskEventData(DB, e), {})
            twice == dispatch(once, TaskEventData(DB, e), {})
        IN /\ twice.audit_logs = once.audit_logs
           /\ twice.notifications = once.notifications

\* The only event of the outbox was dispatched inline and by the worker and
\* there are two notifications.
C6_DuplicateNotification ==
    /\ Len(task_events) = 1
    /\ Cardinality(CallsOf(process_calls, "NotificationConsumer", 1)) = 2
    /\ Len(notifications) = 2

AuditRows(logs, event) ==
    {k \in DOMAIN logs :
        /\ logs[k].entity_id = AuditEntityId(event)
        /\ logs[k].action = EVENT_TO_ACTION(event.event_type)
        /\ logs[k].event_id = event.event_id}

\* C7: one or more AuditConsumer.process calls with the same event id leave
\* exactly one AuditLog row matching the event's entity_id, action and
\* event id; a further call changes nothing.
C7_AuditConsumerOneRowPerEvent ==
    \A e \in DOMAIN task_events :
        LET event == TaskEventData(DB, e)
            once == AuditConsumer_process(DB, event)
        IN /\ CallsOf(process_calls, "AuditConsumer", e) # {}
              => Cardinality(AuditRows(audit_logs, event)) = 1
           /\ Cardinality(AuditRows(once.audit_logs, event)) = 1
           /\ AuditConsumer_process(once, event) = once

\* AuditConsumer.process returned twice for an event, inline and in the
\* worker.
C7_ProcessedTwice ==
    \E e \in DOMAIN task_events :
        /\ Cardinality(CallsOf(process_calls, "AuditConsumer", e)) = 2
        /\ Cardinality(AuditRows(audit_logs, TaskEventData(DB, e))) = 1

Handlers(event_type) == {c \in ConsumerNames : handles(c, event_type)}

\* C8: whichever consumers raise, dispatch invokes every consumer that
\* handles the event type and returns normally.
C8_DispatchIsolatesConsumers ==
    \A e \in DOMAIN task_events, raising \in SUBSET ConsumerNames :
        LET log == dispatch(DB, TaskEventData(DB, e), raising).dispatch_log
        IN /\ log.invoked = Handlers(task_events[e].event_type)
           /\ ~log.escaped

\* AuditConsumer raised on an event and NotificationConsumer, registered
\* after it, processed the event.
C8_LaterConsumerRan ==
    \E e \in DOMAIN task_events :
        /\ faults = {"AuditConsumer"}
        /\ CallsOf(process_calls, "AuditConsumer", e) = {}
        /\ CallsOf(process_calls, "NotificationConsumer", e) # {}

\* C9: after any committed operation that completes a task (toggle,
\* update_task with is_completed = true) or deletes it, the task has no
\* pending reminder.
C9_NoPendingAfterCompleteOrDelete ==
    [][\A t \in DOMAIN tasks :
        (/\ TaskExists(DB, t)
         /\ \/ ~tasks[t].is_completed /\ tasks'[t].is_completed
            \/ ~tasks'[t].exists)
        => PendingOf(reminders', t) = {}]_vars

\* A task completed through update_task keeps its pending reminder.
C9_CompletedWithPendingReminder ==
    \E t \in DOMAIN tasks :
        /\ tasks[t].exists
        /\ tasks[t].is_completed
        /\ PendingOf(reminders, t) # {}

\* C10: sent, cancelled and failed are terminal: no operation
\* (mark_reminder_sent, mark_reminder_failed, cancel_task_reminders,
\* create_reminder, a ReminderWorker cycle) changes the status of a
\* reminder that is in one of them.
C10_TerminalStatusesNeverChange ==
    [][\A i \in DOMAIN reminders :
        reminders[i].status \in Terminal
        => reminders'[i].status = reminders[i].status]_vars

\* The outcome of one execute_recommendation call on the stored tables.
Executed(rec, dry_run) == execute_recommendation(DB, rec, dry_run)

MeetsThreshold(rec) ==
    CONFIDENCE_VALUES(rec.confidence) >= ai_settings.threshold

Executable == {"priority_change", "add_reminder"}

\* C11: while AI_AUTOMATION_ENABLED is false, execute_recommendation returns
\* applied = false for every recommendation, whatever its type and
\* confidence and whether or not dry_run is set, and changes no task and no
\* reminder.
C11_DisabledAppliesNothing ==
    ~ai_settings.enabled =>
        \A rec \in Recommendations, dry_run \in BOOLEAN :
            LET d == Executed(rec, dry_run)
            IN /\ d.ai_result.applied = FALSE
               /\ d.tasks = tasks
               /\ d.reminders = reminders

\* A high-confidence priority change for a stored task was refused by the
\* enable gate.
C11_RefusedWhileDisabled ==
    /\ ~ai_settings.enabled
    /\ ai_result.reason = "disabled"
    /\ ai_result.recommendation_type = "priority_change"
    /\ ai_result.confidence = "high"
    /\ ~ai_result.dry_run
    /\ ~ai_result.applied
    /\ TaskExists(DB, ai_result.task_id)

\* C12: while automation is enabled a recommendation is applied only if its
\* confidence value (low 0.3, medium 0.6, high 0.9) is at least
\* AI_CONFIDENCE_THRESHOLD; with the threshold at 0.8 a medium-confidence
\* priority_change is rejected and leaves the task unchanged, while a
\* high-confidence one on an existing task is applied and sets the task's
\* priority to the suggested value.
C12_AppliedOnlyAtOrAboveThreshold ==
    ai_settings.enabled =>
        \A rec \in Recommendations, dry_run \in BOOLEAN :
            LET d == Executed(rec, dry_run)
            IN /\ d.ai_result.applied => MeetsThreshold(rec)
               /\ ( /\ ai_settings.threshold = AI_CONFIDENCE_THRESHOLD
                    /\ rec.recommendation_type = "priority_change"
                    /\ rec.confidence = "medium" )
                  => /\ ~d.ai_result.applied
                     /\ d.tasks = tasks
               /\ ( /\ ai_settings.threshold = AI_CONFIDENCE_THRESHOLD
                    /\ rec.recommendation_type = "priority_change"
                    /\ rec.confidence = "high"
                    /\ rec.suggested_value # ""
                    /\ TaskExists(DB, rec.task_id)
                    /\ ~dry_run )
                  => /\ d.ai_result.applied
                     /\ d.tasks[rec.task_id].priority = rec.suggested_value

\* With the threshold at 0.8 a high-confidence priority change was applied
\* and the task carries the suggested priority.
C12_HighConfidenceApplied ==
    /\ ai_settings.enabled
    /\ ai_settings.threshold = AI_CONFIDENCE_THRESHOLD
    /\ ai_result.applied
    /\ ai_result.recommendation_type = "priority_change"
    /\ ai_result.confidence = "high"
    /\ TaskExists(DB, ai_result.task_id)
    /\ tasks[ai_result.task_id].priority = "high"

AIRows(logs) ==
    {i \in DOMAIN logs :
        "ai_automated" \in DOMAIN logs[i] /\ logs[i].ai_automated}

\* C13: every call to execute_recommendation, whether the recommendation
\* ends up applied, skipped (by the enable gate, the confidence gate or for
\* lack of a handler) or dry-run, adds exactly one AuditLog entry whose
\* details carry ai_automated = true.
C13_EveryCallLogsOnce ==
    \A rec \in Recommendations, dry_run \in BOOLEAN :
        LET d == Executed(rec, dry_run)
        IN /\ Len(d.audit_logs) = Len(audit_logs) + 1
           /\ Cardinality(AIRows(d.audit_logs)) =
                Cardinality(AIRows(audit_logs)) + 1

\* A call was skipped for lack of a handler and the audit log is empty.
C13_SkippedUnlogged ==
    /\ ai_result.reason = "no_handler"
    /\ audit_logs = <<>>

\* C14: with dry_run = true a recommendation that passes both gates and has
\* a handler does not invoke the handler: no task and no reminder changes,
\* the result is applied = false, and the one audit entry written has the
\* action ai.recommendation.dry_run.
C14_DryRunChangesNothing ==
    \A rec \in Recommendations :
        ( /\ ai_settings.enabled
          /\ MeetsThreshold(rec)
          /\ rec.recommendation_type \in Executable )
        => LET d == Executed(rec, TRUE)
           IN /\ d.tasks = tasks
              /\ d.reminders = reminders
              /\ ~d.ai_result.applied
              /\ Len(d.audit_logs) = Len(audit_logs) + 1
              /\ d.audit_logs[Len(d.audit_logs)].action =
                    "ai.recommendation.dry_run"

\* A dry run of a priority change on a stored task was logged and the task
\* keeps its priority.
C14_DryRunLogged ==
    /\ ai_result.dry_run
    /\ ai_result.reason = "dry_run"
    /\ ai_result.recommendation_type = "priority_change"
    /\ TaskExists(DB, ai_result.task_id)
    /\ tasks[ai_result.task_id].priority = "medium"
    /\ audit_logs # <<>>
    /\ audit_logs[Len(audit_logs)].action = "ai.recommendation.dry_run"

\* C15: a recommendation of a type other than priority_change and
\* add_reminder (task_overdue, task_neglected) is never applied under any
\* enable flag and threshold: the result is applied = false with a
\* no-handler reason and no task or reminder changes.
C15_InformationalReportedNoHandler ==
    \A rec \in Recommendations, dry_run \in BOOLEAN :
        rec.recommendation_type \notin Executable
        => LET d == Executed(rec, dry_run)
           IN /\ ~d.ai_result.applied
              /\ d.ai_result.reason = "no_handler"
              /\ d.tasks = tasks
              /\ d.reminders = reminders

\* C15 as the code has it: such a recommendation is never applied and
\* changes nothing under any setting; the reason is the no-handler one when
\* both gates pass, and the gate's own reason when a gate refuses first.
C15_InformationalNeverApplied ==
    \A rec \in Recommendations, dry_run \in BOOLEAN :
        rec.recommendation_type \notin Executable
        => LET d == Executed(rec, dry_run)
           IN /\ ~d.ai_result.applied
              /\ d.tasks = tasks
              /\ d.reminders = reminders
              /\ d.ai_result.reason =
                    IF ~ai_settings.enabled THEN "disabled"
                    ELSE IF ~MeetsThreshold(rec) THEN "below_threshold"
                    ELSE "no_handler"

\* A task_overdue recommendation passed both gates and was reported as
\* having no handler.
C15_OverdueNoHandler ==
    /\ ai_settings.enabled
    /\ ai_result.recommendation_type = "task_overdue"
    /\ ai_result.reason = "no_handler"
    /\ ~ai_result.applied
    /\ TaskExists(DB, ai_result.task_id)

\* The notifications of a reminder, and its audit rows with an action.
NotificationsOf(d, i) ==
    {n \in DOMAIN d.notifications : d.notifications[n].reminder_id = i}

ReminderAudit(d, i, action) ==
    {k \in DOMAIN d.audit_logs :
        /\ d.audit_logs[k].action = action
        /\ d.audit_logs[k].entity_type = "reminder"
        /\ d.audit_logs[k].entity_id = i}

Live(d, i) ==
    /\ TaskExists(d, d.reminders[i].task_id)
    /\ ~d.tasks[d.reminders[i].task_id].is_completed

\* C16: within one WorkerBase.run batch each successfully processed item is
\* committed on its own: when items of a batch fail, each rollback undoes
\* only the failing item's uncommitted changes (its notification and its
\* reminder.triggered row), and the other items' completed status and side
\* effects (their notifications and audit rows) remain committed.
C16_FailureKeepsEarlierItemCommitted ==
    LET items == Fetched(ReminderWorker_fetch_pending(DB))
    IN \A failing \in SUBSET items :
        LET d == ReminderWorker_run(DB, failing)
            delivered == {i \in items \ failing : Live(DB, i)}
        IN /\ \A i \in items \ failing : d.reminders[i].status = "sent"
           /\ \A i \in delivered :
                /\ Cardinality(NotificationsOf(d, i)) =
                        Cardinality(NotificationsOf(DB, i)) + 1
                /\ Cardinality(ReminderAudit(d, i, "reminder.triggered")) =
                        Cardinality(ReminderAudit(DB, i, "reminder.triggered")) + 1
           /\ \A i \in failing :
                /\ d.reminders[i].status = "failed"
                /\ NotificationsOf(d, i) = NotificationsOf(DB, i)
                /\ ReminderAudit(d, i, "reminder.triggered") =
                        ReminderAudit(DB, i, "reminder.triggered")
                /\ Cardinality(ReminderAudit(d, i, "reminder.failed")) =
                        Cardinality(ReminderAudit(DB, i, "reminder.failed")) + 1
           /\ Len(d.notifications) = Len(notifications) + Cardinality(delivered)

\* A batch in which one reminder was delivered and the next one failed: the
\* first is sent with its notification, the second failed with none, and
\* the two audit rows follow each other.
C16_SentThenFailed ==
    \E i, j \in DOMAIN reminders, k \in DOMAIN audit_logs :
        /\ i # j
        /\ reminders[i].status = "sent"
        /\ reminders[j].status = "failed"
        /\ NotificationsOf(DB, i) # {}
        /\ NotificationsOf(DB, j) = {}
        /\ k + 1 \in DOMAIN audit_logs
        /\ audit_logs[k] = WorkerAudit("reminder.triggered", "reminder", i)
        /\ audit_logs[k + 1] = WorkerAudit("reminder.failed", "reminder", j)

\* C17: with two worker instances running concurrently against the same
\* store, mark_processing is an exclusive claim: for each item at most one
\* instance obtains true and runs process_item on it, so no item is
\* processed by both.
C17_NoItemProcessedByBoth ==
    \A a, b \in item_calls : a.item = b.item => a.worker = b.worker

\* Both instances ran process_item on one notification, which was
\* delivered twice.
C17_ProcessedByBoth ==
    \E n \in DOMAIN notifications :
        /\ \A w \in WorkerInstances : [worker |-> w, item |-> n] \in item_calls
        /\ Cardinality({k \in DOMAIN audit_logs :
                audit_logs[k] =
                    WorkerAudit("notification.delivered", "notification", n)}) >= 2

InBackoff(e) ==
    /\ task_events[e].processing_status = "failed"
    /\ task_events[e].processed_at >= now - RetryDelay

Exhausted(e) ==
    /\ task_events[e].processing_status = "failed"
    /\ task_events[e].retry_count >= WORKER_MAX_RETRIES

\* C18: EventWorker.fetch_pending returns an event only if its
\* processing_status is pending, or it is failed with retry_count below
\* max_retries and processed_at earlier than now minus the retry delay;
\* events in processing or completed status, failed events with exhausted
\* retries and failed events still inside the backoff window are never
\* returned.
C18_FetchReturnsOnlyEligibleEvents ==
    \A e \in Fetched(EventWorker_fetch_pending(DB)) :
        /\ \/ task_events[e].processing_status = "pending"
           \/ /\ task_events[e].processing_status = "failed"
              /\ task_events[e].retry_count < WORKER_MAX_RETRIES
              /\ task_events[e].processed_at < now - RetryDelay
        /\ task_events[e].processing_status \notin {"processing", "completed"}
        /\ ~Exhausted(e)
        /\ ~InBackoff(e)

\* A failed event is returned for a retry after its backoff window while an
\* exhausted one is left out.
C18_RetryReturnedExhaustedLeftOut ==
    LET fetched == Fetched(EventWorker_fetch_pending(DB))
    IN /\ \E e \in fetched :
            /\ task_events[e].processing_status = "failed"
            /\ task_events[e].retry_count >= 1
       /\ \E e \in DOMAIN task_events : Exhausted(e) /\ e \notin fetched

\* The audit rows the ReminderWorker writes when it handles a reminder, one
\* per handling.
WorkerHandlings(i) ==
    UNION {ReminderAudit(DB, i, action) :
            action \in {"reminder.triggered", "reminder.expired",
                        "reminder.cancelled", "reminder.failed"}}

\* C19: each due reminder is processed at most once by the ReminderWorker:
\* after the cycle that handles it, with success or with a failure, its
\* status is no longer pending, so no later fetch_pending returns it, and a
\* processing failure leaves it in status failed for good, with no retry.
C19_ReminderProcessedAtMostOnce ==
    /\ [](\A i \in DOMAIN reminders : Cardinality(WorkerHandlings(i)) <= 1)
    /\ [](LET items == Fetched(ReminderWorker_fetch_pending(DB))
          IN \A failing \in SUBSET items :
                LET d == ReminderWorker_run(DB, failing)
                IN /\ \A i \in items : d.reminders[i].status # "pending"
                   /\ \A i \in failing : d.reminders[i].status = "failed"
                   /\ Fetched(ReminderWorker_fetch_pending(d)) \cap items = {})
    /\ [][\A i \in DOMAIN reminders :
            /\ reminders[i].status # "pending" => reminders'[i].status # "pending"
            /\ reminders[i].status = "failed" => reminders'[i].status = "failed"]_vars

\* A due reminder failed in the worker and a later cycle, which handled
\* another reminder, left it failed.
C19_FailedAndLeftAlone ==
    \E i \in DOMAIN reminders, k \in DOMAIN audit_logs :
        /\ reminders[i].status = "failed"
        /\ reminders[i].remind_at <= now
        /\ audit_logs[k] = WorkerAudit("reminder.failed", "reminder", i)
        /\ k < Len(audit_logs)
        /\ audit_logs[Len(audit_logs)].entity_id # i

C21_ReminderThenNotificationSent ==
    \A i \in Fetched(ReminderWorker_fetch_pending(DB)) :
        Live(DB, i)
        => LET d == ReminderWorker_run(DB, {})
               created == NotificationsOf(d, i) \ NotificationsOf(DB, i)
           IN /\ Cardinality(created) = 1
              /\ \A n \in created : d.notifications[n].status = "pending"
              /\ d.reminders[i].status = "sent"
              /\ \A n \in created \cap Fetched(NotificationWorker_fetch_pending(d)) :
                    NotificationWorker_run(d, {}).notifications[n].status = "sent"

\* A due reminder of a live task went through both workers: the reminder is
\* sent, and so is its one notification, with both audit rows written.
C21_DeliveredEndToEnd ==
    \E i \in DOMAIN reminders, n \in DOMAIN notifications :
        /\ Live(DB, i)
        /\ reminders[i].status = "sent"
        /\ NotificationsOf(DB, i) = {n}
        /\ notifications[n].status = "sent"
        /\ ReminderAudit(DB, i, "reminder.triggered") # {}
        /\ \E k \in DOMAIN audit_logs :
            audit_logs[k] = WorkerAudit("notification.delivered", "notification", n)

\* C22: every WorkerRunner.run_once cycle runs the three workers in the
\* fixed order EventWorker, NotificationWorker, ReminderWorker, each at most
\* once per cycle, and a worker never starts before the previous one has
\* returned.
C22_WorkersRunInFixedOrder ==
    /\ [](/\ Len(runner.ran) <= 3
          /\ \A k \in DOMAIN runner.ran :
                runner.ran[k] =
                    <<"EventWorker", "NotificationWorker", "ReminderWorker">>[k]
          /\ Len(runner.worker_results) = Len(runner.ran))
    /\ [][\/ runner'.ran = runner.ran
          \/ runner'.ran = <<>> /\ runner.pc = "limit"
          \/ /\ runner.pc = "run_once"
             /\ Len(runner'.ran) = Len(runner.ran) + 1
             /\ Len(runner'.worker_results) = Len(runner'.ran)]_vars

\* A whole cycle ran: the ReminderWorker, last, delivered a reminder whose
\* notification the NotificationWorker, before it, could not see yet.
C22_CycleCompleted ==
    /\ runner.ran = <<"EventWorker", "NotificationWorker", "ReminderWorker">>
    /\ runner.iterations = 1
    /\ runner.worker_results[2].status = "no_work"
    /\ runner.worker_results[3].status = "success"
    /\ \E n \in DOMAIN notifications : notifications[n].status = "pending"

\* C23: WorkerRunner.run_loop terminates: with max_iterations = n and no
\* shutdown request it performs exactly n run_once cycles and returns; once
\* shutdown has been requested no further cycle is started and the loop
\* returns.
C23_NoCycleAfterShutdown ==
    /\ runner.late_cycles = 0
    /\ ( /\ runner.pc = "returned"
         /\ ~runner._shutdown_requested
         /\ runner.max_iterations # NoLimit )
       => runner.iterations = runner.max_iterations

\* C23 as the code has it: the loop returns after exactly n cycles when
\* nothing requests shutdown, never runs more than n, and returns once
\* shutdown is requested; the flag is tested at the top of the loop only,
\* so a request that arrives after the test lets the one cycle about to start
\* run before the loop returns.
C23_LoopTerminates ==
    /\ [](runner.late_cycles <= 1)
    /\ [](runner.max_iterations # NoLimit
            => runner.iterations <= runner.max_iterations)
    /\ []( ( /\ runner.pc = "returned"
             /\ ~runner._shutdown_requested
             /\ runner.max_iterations # NoLimit )
           => runner.iterations = runner.max_iterations )
    /\ ( ( /\ runner.pc # "new"
           /\ runner.max_iterations # NoLimit \/ runner._shutdown_requested )
         ~> runner.pc = "returned" )

\* The loop returned after a shutdown request that let one more cycle run.
C23_ReturnedAfterLateCycle ==
    /\ runner.pc = "returned"
    /\ runner._shutdown_requested
    /\ runner.late_cycles = 1
    /\ runner.iterations >= 1

UnknownEvents == {e \in DOMAIN task_events :
                    task_events[e].event_type \notin EventType}

\* A worker cycle is the only step that changes the processing status of a
\* stored event.
EventCycle ==
    \E e \in DOMAIN task_events :
        task_events'[e].processing_status # task_events[e].processing_status

\* C25: an outbox event whose event_type is unknown is marked completed by
\* the EventWorker cycle that first fetches it, with no retry; no consumer is
\* invoked for it, no audit row is written for it and it is not published;
\* once completed it stays completed and no later fetch returns it.
C25_UnknownEventCompletedUndispatched ==
    /\ [](\A e \in UnknownEvents :
            /\ task_events[e].processing_status \in {"pending", "completed"}
            /\ task_events[e].retry_count = 0
            /\ ~\E c \in process_calls : c.event_id = e
            /\ ~\E c \in publish_calls : c.event_id = e
            /\ ~\E k \in DOMAIN audit_logs : audit_logs[k].event_id = e
            /\ task_events[e].processing_status = "completed"
                 => e \notin Fetched(EventWorker_fetch_pending(DB)))
    /\ [][\A e \in UnknownEvents :
            /\ (EventCycle /\ e \in Fetched(EventWorker_fetch_pending(DB)))
                 => /\ task_events'[e].processing_status = "completed"
                    /\ task_events'[e].processed_at = now
            /\ task_events[e].processing_status = "completed"
                 => task_events'[e] = task_events[e]]_vars

\* An unknown event was completed and time has passed since, next to a
\* known event that the same worker dispatched to a consumer.
C25_UnknownCompletedKnownDispatched ==
    /\ \E e \in UnknownEvents :
          /\ task_events[e].processing_status = "completed"
          /\ task_events[e].processed_at < now
    /\ \E e \in DOMAIN task_events :
          /\ task_events[e].event_type \in EventType
          /\ \E c \in process_calls : c.event_id = e /\ c.n > 1

\* ---- C26
\* The event was handed to every consumer that handles its type.
DispatchedInline(e) ==
    \A k \in DOMAIN Consumers :
        handles(Consumers[k], task_events[e].event_type)
            => \E c \in process_calls :
                  c.consumer = Consumers[k] /\ c.event_id = e

ReminderEventTypes == {REMINDER_SCHEDULED, REMINDER_CANCELLED, REMINDER_SENT}

\* C26: with events enabled and no consumer raising, every event a request
\* has committed to the outbox, a task event or a reminder event, has been
\* dispatched to the consumers that handle it by the time the request's
\* transaction is committed.
C26_EveryEventDispatchedInline ==
    \A e \in DOMAIN task_events : DispatchedInline(e)

\* A committed reminder event still waits for the worker and no consumer
\* has seen it, while the task event of the same task was dispatched.
C26_ReminderEventUndispatched ==
    \E e \in DOMAIN task_events :
        /\ task_events[e].event_type \in ReminderEventTypes
        /\ task_events[e].processing_status = "pending"
        /\ ~\E c \in process_calls : c.event_id = e
        /\ \E f \in DOMAIN task_events :
              /\ task_events[f].event_type = TASK_CREATED
              /\ task_events[f].task_id = task_events[e].task_id
              /\ DispatchedInline(f)

\* ---- C27
Rows == <<tasks, reminders, notifications, audit_logs, task_events>>

\* C27: persist_event and emit never commit. When the transaction of the
\* request that persisted an event is rolled back, no outbox row of that
\* event and no audit row a consumer wrote for it exists afterwards, and
\* every table is as it was before the request; a step that does add an
\* outbox row is one whose transaction was committed.
C27_RolledBackEventLeavesNoRow ==
    /\ [](\A r \in rolled_back :
            /\ r.id \notin DOMAIN task_events
            /\ ~\E k \in DOMAIN audit_logs : audit_logs[k].event_id = r.id)
    /\ [][/\ rolled_back' # {} => Rows' = Rows
          /\ task_events' # task_events => rolled_back' = {}]_vars

\* A request that had persisted a task.created event, and one that had
\* persisted a reminder.scheduled event, was rolled back while the outbox
\* holds the rows of earlier committed requests.
C27_TaskEventRolledBack ==
    /\ \E r \in rolled_back : r.event_type = TASK_CREATED
    /\ Len(task_events) > 0

\* ---- C28
\* C28: the broker is called for an event only when its outbox row has been
\* committed, and the request whose transaction is rolled back makes no
\* publish call.
C28_PublishedOnlyAfterCommit ==
    /\ [](\A c \in publish_calls : c.committed)
    /\ [][rolled_back' # {} => publish_calls' = publish_calls]_vars

\* The broker accepted the event of a committed request, and a later
\* request was rolled back with its event unpublished.
C28_PublishedAndRolledBack ==
    /\ \E c \in publish_calls : c.committed /\ c.ret = "true"
    /\ \E r \in rolled_back : r.event_type = REMINDER_SCHEDULED

\* ---- C29
\* The latest call was made without an explicit lead.
AutoLeadCall == candidate.task_id # None /\ candidate.lead_hours = NoLead

\* C29: without an explicit lead, a non-completed task due in the future
\* gets remind_at = due_at - 1 hour when it is due within 24 hours and
\* due_at - 1 day otherwise, replaced by now + 15 minutes when that time is
\* not after now, and never a time before now; a completed task, a task
\* without due date and a task whose due date has passed get no candidate.
C29_LeadTimePolicy ==
    AutoLeadCall =>
        LET task == tasks[candidate.task_id]
            due == task.due_at
            at == candidate.at
            planned == IF due - at <= 24 * 60 THEN due - 60 ELSE due - 24 * 60
        IN IF task.is_completed \/ due = NoTime \/ due <= at
           THEN candidate.remind_at = NoTime
           ELSE /\ candidate.remind_at =
                      (IF planned > at THEN planned ELSE at + 15)
                /\ candidate.remind_at >= at

\* A task due in five days got due_at - 1 day.
C29_FiveDaysAhead ==
    /\ AutoLeadCall
    /\ tasks[candidate.task_id].due_at = candidate.at + 5 * 24 * 60
    /\ candidate.remind_at = tasks[candidate.task_id].due_at - 24 * 60

\* ---- C30
Returned30 == candidate.task_id # None /\ candidate.remind_at # NoTime

\* C30 as stated: every candidate's remind_at is strictly earlier than the
\* task's due_at.
C30_RemindBeforeDue ==
    Returned30 => candidate.remind_at < tasks[candidate.task_id].due_at

\* C30: a candidate's remind_at is strictly earlier than the task's due_at
\* exactly when the task is due more than 15 minutes after now; for a task
\* due within 15 minutes it is now + 15 minutes, at or after due_at.
C30_RemindBeforeDueUnlessImminent ==
    Returned30 =>
        LET due == tasks[candidate.task_id].due_at
        IN /\ candidate.remind_at < due <=> due > candidate.at + 15
           /\ due <= candidate.at + 15 => candidate.remind_at = candidate.at + 15

\* A task due in ten minutes got a candidate five minutes after it is due.
C30_RemindAfterDue ==
    /\ Returned30
    /\ tasks[candidate.task_id].due_at = candidate.at + 10
    /\ candidate.remind_at = candidate.at + 15

\* ---- C31
\* C31: suggest_priority_change suggests medium with confidence high for an
\* overdue low-priority task, high with confidence medium for a
\* medium-priority task overdue by at least one day, medium with confidence
\* medium for a low-priority task due within the next 24 hours, and nothing
\* for a completed task, a task without due date and every other case.
C31_PriorityChangeRule ==
    recommendation.task_id # None =>
        LET task == tasks[recommendation.task_id]
            due == task.due_at
            at == recommendation.at
            open == ~task.is_completed /\ due # NoTime
        IN recommendation.result =
             (IF open /\ due < at /\ task.priority = "low"
              THEN [confidence |-> "high", suggested_value |-> "medium"]
              ELSE IF open /\ at - due >= 24 * 60 /\ task.priority = "medium"
              THEN [confidence |-> "medium", suggested_value |-> "high"]
              ELSE IF open /\ at < due /\ due <= at + 24 * 60
                      /\ task.priority = "low"
              THEN [confidence |-> "medium", suggested_value |-> "medium"]
              ELSE NoSuggestion)

\* A medium-priority task overdue by exactly one day was given high.
C31_MediumOverdueOneDay ==
    /\ recommendation.task_id # None
    /\ tasks[recommendation.task_id].priority = "medium"
    /\ tasks[recommendation.task_id].due_at = recommendation.at - 24 * 60
    /\ recommendation.result = [confidence |-> "medium", suggested_value |-> "high"]

\* ---- C32
\* C32: a notification has next_retry_at set only if its status is failed
\* and its retry_count is below the maximum; it is unset for pending,
\* processing and sent notifications and for failed ones whose retries are
\* exhausted.
C32_NextRetryOnlyWhileRetryable ==
    \A n \in DOMAIN notifications :
        notifications[n].next_retry_at # NoTime
            => /\ notifications[n].status = "failed"
               /\ notifications[n].retry_count < WORKER_MAX_RETRIES

\* A notification failed for the last time and carries the time of a
\* further retry that no fetch will grant.
C32_ExhaustedWithRetryTime ==
    \E n \in DOMAIN notifications :
        /\ notifications[n].status = "failed"
        /\ notifications[n].retry_count = WORKER_MAX_RETRIES
        /\ notifications[n].next_retry_at > now
        /\ ~NotificationWorker_eligible(DB, n, notifications[n].next_retry_at)

\* ---- C33
\* C33: a failure of a notification's delivery sets next_retry_at to the
\* time of the failure plus the base delay times 2 to the power of the
\* notification's retry count, the count including this failure, so that
\* the delay is twice the one the same count minus one would give; and no
\* fetch returns a failed notification before its next_retry_at.
C33_BackoffDoublesAndIsRespected ==
    /\ [](\A n \in DOMAIN notifications :
            (notifications[n].status = "failed"
             /\ notifications[n].next_retry_at > now)
                => n \notin Fetched(NotificationWorker_fetch_pending(DB)))
    /\ [][\A n \in DOMAIN notifications :
            notifications'[n].retry_count = notifications[n].retry_count + 1
                => /\ notifications'[n].status = "failed"
                   /\ notifications'[n].next_retry_at =
                        now + RetryDelay * 2 ^ notifications'[n].retry_count
                   /\ notifications'[n].next_retry_at - now =
                        2 * (RetryDelay * 2 ^ notifications[n].retry_count)]_vars

\* A notification failed for the second time and waits four minutes, twice
\* the wait after its first failure.
C33_SecondFailureWaitsTwice ==
    \E n \in DOMAIN notifications :
        /\ notifications[n].status = "failed"
        /\ notifications[n].retry_count = 2
        /\ notifications[n].next_retry_at = now + 4 * RetryDelay

\* ---- C34
\* The request left the outbox, the consumers and the broker alone.
NoEmission(d) ==
    /\ d.task_events = task_events
    /\ d.process_calls = process_calls
    /\ d.publish_calls = publish_calls
    /\ d.pending_events = <<>>

\* C34: with events disabled no outbox row exists, no consumer has run and
\* no publish was attempted; and from every reachable state create_task,
\* toggle_task_completion and create_reminder add no outbox row, run no
\* consumer and call no broker, while the task is stored or toggled and
\* committed and the reminder is stored as pending.
C34_DisabledEventsOnlyMutate ==
    ~EVENTS_ENABLED =>
        /\ task_events = <<>> /\ process_calls = {} /\ publish_calls = {}
        /\ \A recurrence_type \in RecurrenceType, due_at \in DueInputs :
              LET d == create_task(DB, recurrence_type, due_at, {}, "ok")
              IN /\ NoEmission(d)
                 /\ Len(d.tasks) = Len(tasks) + 1
                 /\ d.tasks[Len(d.tasks)].due_at = due_at
                 /\ d.durable.tasks = d.tasks
        /\ \A t \in DOMAIN tasks :
              TaskExists(DB, t) =>
                 /\ LET d == toggle_task_completion(DB, t, {}, "ok")
                    IN /\ NoEmission(d)
                       /\ d.tasks[t].is_completed = ~tasks[t].is_completed
                       /\ d.durable.tasks = d.tasks
                 /\ LET d == create_reminder(DB, t, now)
                    IN /\ NoEmission(d)
                       /\ Len(d.reminders) = Len(reminders) + 1
                       /\ d.reminders[Len(d.reminders)].status = "pending"

\* With events disabled a task was completed and another has a pending
\* reminder, and the outbox is empty.
C34_MutatedWithoutEvents ==
    /\ ~EVENTS_ENABLED
    /\ task_events = <<>>
    /\ \E t \in DOMAIN tasks : tasks[t].is_completed
    /\ \E r \in DOMAIN reminders : reminders[r].status = "pending"

\* ---- C35
\* The consumers the sentence names for an event type.
Subscribers(event_type) ==
    {"AuditConsumer"}
        \cup (IF event_type \in {TASK_CREATED, TASK_COMPLETED}
              THEN {"NotificationConsumer"} ELSE {})
        \cup (IF event_type = TASK_COMPLETED THEN {"RecurrenceConsumer"} ELSE {})

\* C35: dispatch invokes for an event exactly the consumers that handle its
\* type: AuditConsumer for every task and reminder event type,
\* NotificationConsumer for task.created and task.completed only, where it
\* adds one pending NotificationDelivery and delivers nothing, and
\* RecurrenceConsumer for task.completed only; every consumer call on record
\* is one of these.
C35_ConsumersInvokedByType ==
    /\ \A c \in process_calls :
          c.consumer \in Subscribers(task_events[c.event_id].event_type)
    /\ \A e \in DOMAIN task_events :
          LET event == TaskEventData(DB, e)
              d == dispatch(DB, event, {})
          IN /\ d.dispatch_log.invoked = Subscribers(event.event_type)
             /\ IF event.event_type \in {TASK_CREATED, TASK_COMPLETED}
                THEN /\ Len(d.notifications) = Len(notifications) + 1
                     /\ d.notifications[Len(d.notifications)].status = "pending"
                     /\ SubSeq(d.notifications, 1, Len(notifications))
                          = notifications
                ELSE d.notifications = notifications

\* The outbox holds a task.created event that AuditConsumer and
\* NotificationConsumer processed and a reminder event that only
\* AuditConsumer processed.
C35_TwoConsumersAndOne ==
    /\ \E e \in DOMAIN task_events :
          /\ task_events[e].event_type = TASK_CREATED
          /\ {c.consumer : c \in {x \in process_calls : x.event_id = e}}
                = {"AuditConsumer", "NotificationConsumer"}
    /\ \E e \in DOMAIN task_events :
          /\ task_events[e].event_type \in ReminderEventTypes
          /\ {c.consumer : c \in {x \in process_calls : x.event_id = e}}
                = {"AuditConsumer"}

\* ---- C36
EventSettled(e) ==
    /\ e \in DOMAIN task_events
    /\ \/ task_events[e].processing_status = "completed"
       \/ /\ task_events[e].processing_status = "failed"
          /\ task_events[e].retry_count >= WORKER_MAX_RETRIES

NotificationSettled(n) ==
    /\ n \in DOMAIN notifications
    /\ \/ notifications[n].status = "sent"
       \/ /\ notifications[n].status = "failed"
          /\ notifications[n].retry_count >= WORKER_MAX_RETRIES

\* C36: with worker cycles scheduled fairly, and the worker process possibly
\* killed between claiming an item and recording its outcome, no outbox
\* event and no notification stays in processing: after every cycle, ended
\* or killed, every item is completed or sent, terminally failed, or one
\* that a later fetch_pending returns.
C36_UnsettledItemsStayFetchable ==
    /\ \A e \in DOMAIN task_events :
          \/ EventSettled(e)
          \/ \E t \in now..MaxRetryTime : EventWorker_eligible(DB, e, t)
    /\ \A n \in DOMAIN notifications :
          \/ NotificationSettled(n)
          \/ \E t \in now..MaxRetryTime : NotificationWorker_eligible(DB, n, t)

\* A published event is committed in status processing by a killed cycle,
\* and no fetch_pending now or later returns it.
C36_EventLeftProcessing ==
    \E e \in DOMAIN task_events :
        /\ task_events[e].processing_status = "processing"
        /\ task_events[e].published
        /\ \A t \in now..MaxRetryTime : ~EventWorker_eligible(DB, e, t)

\* ---- C37
\* C37: a task has at most one pending reminder also when two
\* create_reminder calls for it, the endpoint's and the AI executor's, run
\* in concurrent transactions.
C37_OnePendingUnderConcurrency ==
    \A t \in DOMAIN tasks : Cardinality(PendingOf(reminders, t)) <= 1

\* Both callers have committed and the task has two pending reminders.
C37_TwoPendingReminders ==
    /\ \A c \in Callers : transactions[c].pc = "idle"
    /\ \E t \in DOMAIN tasks : Cardinality(PendingOf(reminders, t)) = 2

\* ---- C38
\* C38: over any sequence of ReminderWorker cycles, two instances running
\* concurrently included, at most one NotificationDelivery is ever created
\* for a reminder.
C38_OneNotificationPerReminder ==
    \A i \in DOMAIN reminders : Cardinality(NotificationsOf(DB, i)) <= 1

\* Both instances processed one reminder and each created a notification
\* for it.
C38_NotifiedTwice ==
    \E i \in DOMAIN reminders :
        /\ \A w \in WorkerInstances : [worker |-> w, item |-> i] \in item_calls
        /\ Cardinality(NotificationsOf(DB, i)) = 2
        /\ reminders[i].status = "sent"

\* ---- C39
\* A worker cycle attempted the event / the notification in this step: the
\* row leaves the step failed with one more retry, or completed / sent.
EventAttempted(e) == task_events'[e] # task_events[e]

NotificationAttempted(n) == notifications'[n] # notifications[n]

\* C39: the retry_count of an outbox event and of a notification lies
\* between 0 and max_retries; an item is attempted only while its count is
\* below max_retries, every attempt either settles it for good or adds one
\* to the count, so it is attempted at most max_retries times; after that
\* no fetch_pending returns it again, however much time passes.
C39_RetryCountBoundsAttempts ==
    [][/\ \A e \in DOMAIN task_events' :
            /\ task_events'[e].retry_count \in 0..WORKER_MAX_RETRIES
            /\ task_events'[e].retry_count = WORKER_MAX_RETRIES =>
                 \A t \in now'..MaxRetryTime + RetryDelay + 1 :
                    ~EventWorker_eligible([task_events |-> task_events'], e, t)
       /\ \A n \in DOMAIN notifications' :
            /\ notifications'[n].retry_count \in 0..WORKER_MAX_RETRIES
            /\ notifications'[n].retry_count = WORKER_MAX_RETRIES =>
                 \A t \in now'..notifications'[n].next_retry_at + 1 :
                    ~NotificationWorker_eligible(
                        [notifications |-> notifications'], n, t)
       /\ \A e \in DOMAIN task_events :
            EventAttempted(e) =>
                /\ task_events[e].retry_count < WORKER_MAX_RETRIES
                /\ \/ /\ task_events'[e].processing_status = "failed"
                      /\ task_events'[e].retry_count =
                            task_events[e].retry_count + 1
                   \/ /\ task_events'[e].processing_status = "completed"
                      /\ task_events'[e].retry_count =
                            task_events[e].retry_count
       /\ \A n \in DOMAIN notifications :
            NotificationAttempted(n) =>
                /\ notifications[n].retry_count < WORKER_MAX_RETRIES
                /\ \/ /\ notifications'[n].status = "failed"
                      /\ notifications'[n].retry_count =
                            notifications[n].retry_count + 1
                   \/ /\ notifications'[n].status = "sent"
                      /\ notifications'[n].retry_count =
                            notifications[n].retry_count]_vars

\* An event and a notification have both failed max_retries times.
C39_RetriesExhausted ==
    /\ \E e \in DOMAIN task_events :
        /\ task_events[e].processing_status = "failed"
        /\ task_events[e].retry_count = WORKER_MAX_RETRIES
    /\ \E n \in DOMAIN notifications :
        /\ notifications[n].status = "failed"
        /\ notifications[n].retry_count = WORKER_MAX_RETRIES

\* ---- C40
\* Instance w takes the claim on notification n in this step: its
\* mark_processing returned true.
Claims(w, n) ==
    /\ sessions[w].pc = "mark"
    /\ sessions'[w].pc = "process"
    /\ CurrentItem(w) = n

\* C40: once a notification is sent (an outbox event completed), no worker
\* instance claims it or processes it again and its row never changes, also
\* when an instance holds a batch it fetched before the item was sent.
C40_SentNeverTouchedAgain ==
    [][\A n \in DOMAIN notifications :
          notifications[n].status = "sent" =>
            /\ notifications'[n] = notifications[n]
            /\ \A w \in WorkerInstances :
                /\ ~Claims(w, n)
                /\ [worker |-> w, item |-> n] \in item_calls' =>
                        [worker |-> w, item |-> n] \in item_calls]_vars

\* A notification committed as sent is held by an instance whose
\* mark_processing returned true on it after the other instance sent it.
C40_SentClaimedAgain ==
    \E n \in DOMAIN notifications, w \in WorkerInstances :
        /\ notifications[n].status = "sent"
        /\ sessions[w].pc = "process"
        /\ CurrentItem(w) = n
        /\ \E other \in WorkerInstances \ {w} :
                [worker |-> other, item |-> n] \in item_calls
====
